---- MODULE Spec2Model ----
(***************************************************************************)
(* The codegen-diff pipeline of tools/ci-scripts/codegen-diff:             *)
(* diff_lib.py and its callers codegen-diff-revisions.py ("cdr"),          *)
(* semver-checks.py ("sc") and check-deterministic-codegen.py ("cdc"),     *)
(* run against one Git working tree.  A fourth entry, "gen", calls the     *)
(* library function generate_and_commit_generated_code twice with an       *)
(* arbitrary target list, the way check-deterministic-codegen calls it.    *)
(***************************************************************************)
EXTENDS Integers, Sequences, FiniteSets, TLC

\* ------------------------------------------------------------------ bounds
\* most command-line arguments given to a script
MaxArgs == 3
\* most characters of a package id given to parse_package_id
MaxIdLen == 6
\* gradle writes metadata (build info, versions.toml) stamped 0..MaxNonce
MaxNonce == 1

\* --------------------------------------------------------------- constants
HEAD_BRANCH_NAME == "__tmp-localonly-head"
BASE_BRANCH_NAME == "__tmp-localonly-base"
CURRENT_BRANCH == "current"
BASE_BRANCH == "base"
ONCE_BRANCH == "once"
TWICE_BRANCH == "twice"
MAIN_BRANCH == "main"
FEATURE_BRANCH == "feature"
DETACHED == "(detached)"

target_codegen_client == "codegen-client-test"
target_codegen_server == "codegen-server-test"
target_codegen_server_python == "codegen-server-test:codegen-server-test-python"
target_codegen_server_typescript == "codegen-server-test:codegen-server-test-typescript"
target_aws_sdk == "aws:sdk"

Targets ==
  { target_codegen_client, target_codegen_server, target_aws_sdk,
    target_codegen_server_python, target_codegen_server_typescript }

\* targets = targets or [ ... ] : the canonical set when none is given
DefaultTargets(ts) == IF ts = {} THEN Targets ELSE ts

\* the directory under OUTPUT_PATH that holds a target's relocated output
Subdir(t) ==
  CASE t = target_aws_sdk -> "aws-sdk"
    [] t = target_codegen_client -> "codegen-client-test"
    [] t = target_codegen_server -> "codegen-server-test"
    [] t = target_codegen_server_python -> "codegen-server-test-python"
    [] t = target_codegen_server_typescript -> "codegen-server-test-typescript"

Subdirs == { Subdir(t) : t \in Targets }

BranchNames ==
  { MAIN_BRANCH, FEATURE_BRANCH, HEAD_BRANCH_NAME, BASE_BRANCH_NAME,
    CURRENT_BRANCH, BASE_BRANCH, ONCE_BRANCH, TWICE_BRANCH }

\* the scratch branches each script creates
TempBranches(s) ==
  CASE s = "cdr" -> { HEAD_BRANCH_NAME, BASE_BRANCH_NAME }
    [] s = "sc" -> { CURRENT_BRANCH, BASE_BRANCH }
    [] OTHER -> { ONCE_BRANCH, TWICE_BRANCH }

Scripts == { "cdr", "sc", "cdc", "gen" }

\* ------------------------------------------------------------------- state
VARIABLES
  script,     \* which entry point runs
  argv,       \* sys.argv[1:]
  docker,     \* SMITHY_RS_DOCKER_BUILD_IMAGE == "1"
  skipGen,    \* SKIP_GENERATION set (semver-checks)
  targetsArg, \* the targets argument of generate_and_commit_generated_code
  start,      \* the repository as the run found it: HEAD, branches, local changes
  pc,         \* position in the script
  ret,        \* position generate_and_commit_generated_code returns to
  gi,         \* index of the next command of the running generation, 0 if none
  genRev,     \* revision_sha of the running generation
  exit,       \* exit status, -1 while running
  usage,      \* the usage message was printed
  chdir,      \* os.chdir(repository_root) was done
  headSha,    \* head_commit_sha, "" before git rev-parse HEAD
  commits,    \* the object store: sequence of [parent, tree, msg, author]
  present,    \* the commits that are locally present
  branches,   \* branch name -> commit (0: no such branch)
  head,       \* [branch, commit]: the checked-out branch (or DETACHED), its commit
  index,      \* the index: a tree
  unstaged,   \* a tracked source file is modified and not staged
  build,      \* target -> files of its build output directory ({}: no directory)
  outExists,  \* OUTPUT_PATH exists in the working tree
  out,        \* subdirectory of OUTPUT_PATH -> its files in the working tree
  outFiles,   \* other paths under OUTPUT_PATH: rendered diff pages, bot-message
  sdkRoot,    \* files of <repository root>/aws-sdk in the working tree
  diffTxt,    \* codegen-diff.txt exists in the repository root
  results,    \* what the make_diff calls made so far returned
  botMessage, \* the message make_diffs returned, <<>> before
  botFile,    \* what write_to_file wrote to OUTPUT_PATH/bot-message, <<>> before
  crates,     \* semver-checks: crate directories still to examine
  checked,    \* semver-checks: crates the semver checker was run for
  failures,   \* semver-checks: the failures list
  cmds,       \* every external command issued, in order
  steps       \* the orchestration steps entered, in order

inVars == << script, argv, docker, skipGen, targetsArg, start >>
ctlVars == << pc, ret, gi, genRev, exit, usage, chdir, headSha >>
gitVars == << commits, present, branches, head, index, unstaged >>
fsVars == << build, outExists, out, outFiles, sdkRoot, diffTxt >>
repVars == << results, botMessage, botFile >>
scVars == << crates, checked, failures >>
vars == << inVars, ctlVars, gitVars, fsVars, repVars, scVars, cmds, steps >>

\* ------------------------------------------------------- sources and files
\* The sources of a revision as far as code generation reads them: the code,
\* its whitespace layout, and the local modifications applied on top
\* ("s": the change that was staged at start, "u": the unstaged one).
Source(code, ws, mods) == [code |-> code, ws |-> ws, mods |-> mods]

\* A generated file: its path below the directory that holds it, and content.
\* A file derived from the sources carries them; a metadata file carries the
\* stamp n of the gradle invocation that wrote it.
GenFile(name, src) ==
  [name |-> name, code |-> src.code, ws |-> src.ws, mods |-> src.mods, n |-> 0]
MetaFile(name, n) ==
  [name |-> name, code |-> 0, ws |-> 0, mods |-> {}, n |-> n]

\* the crates the SDK of a revision consists of
CratesOf(src) == IF src.code = 2 THEN { "s3", "ec2" } ELSE { "s3" }
CargoToml(crate) == IF crate = "s3" THEN "sdk/s3/Cargo.toml" ELSE "sdk/ec2/Cargo.toml"

\* What `./gradlew <t>:assemble` leaves in the build output directory of t
\* when run on sources src: the generated code (a function of the sources),
\* the raw `source` directory and the build metadata (the source manifest and
\* the model are functions of the sources, the build info carries the stamp).
RawOutput(t, src, n) ==
  { GenFile("src/lib.rs", src),
    GenFile("src/model_json.rs", src),
    GenFile("source/main.smithy", src),
    MetaFile("smithy-build-info.json", n),
    GenFile("sources/manifest", src),
    GenFile("model.json", src) }
  \cup (IF t = target_aws_sdk
          THEN { MetaFile("versions.toml", n) }
                 \cup { GenFile(CargoToml(c), src) : c \in CratesOf(src) }
          ELSE {})

\* `./gradlew codegen-server-test:codegen-server-test-python:stubs` rebuilds
\* the Python projection and adds the type stubs to it.
StubsOutput(src, n) ==
  RawOutput(target_codegen_server_python, src, n)
    \cup { GenFile("python/stubs.pyi", src) }

Names(files) == { f.name : f \in files }

\* ------------------------------------------------------------ trees, refs
EmptyOut == [s \in Subdirs |-> {}]

RuntimeDirs == { "aws/rust-runtime", "rust-runtime" }

\* A tree: the sources, the files of each subdirectory of OUTPUT_PATH, the
\* other paths below OUTPUT_PATH, the files of aws-sdk in the repository root,
\* and the runtime crate directories that are tracked.
SourceTree(src) ==
  [src |-> src, out |-> EmptyOut, extra |-> {}, sdk |-> {}, rt |-> RuntimeDirs]

HasOut(tree) == \E s \in Subdirs : tree.out[s] # {}

\* the commits of the repository's history before the run
SHA_BASE == "sha-base"
SHA_HEAD == "sha-head"
SHA_REMOTE == "sha-remote-only"
Shas == << SHA_BASE, SHA_HEAD, SHA_REMOTE >>

Tree(k) == commits[k].tree

\* What a revision argument resolves to (0: it does not resolve).
Resolve(rev) ==
  CASE rev = SHA_BASE -> 1
    [] rev = SHA_HEAD -> 2
    [] rev = SHA_REMOTE -> IF 3 \in present THEN 3 ELSE 0
    [] rev = "HEAD" -> head.commit
    [] rev \in BranchNames -> branches[rev]
    [] OTHER -> 0

\* git rev-parse HEAD
RevParseHead == IF head.commit <= Len(Shas) THEN Shas[head.commit] ELSE "sha-generated"

\* the sources a build reads: the index plus the unstaged modification
WorkingSources ==
  [index.src EXCEPT !.mods = @ \cup (IF unstaged THEN { "u" } ELSE {})]

\* `git diff --quiet`: 1 when the working tree differs from the index
GitDiffQuiet == IF unstaged THEN 1 ELSE 0

\* the changes staged in the index and not committed
StagedMods == index.src.mods \ Tree(head.commit).src.mods

\* the files of a working-tree directory that are not tracked in tree-files
Untracked(files, tracked) == { f \in files : f.name \notin Names(tracked) }

\* The working tree after HEAD moves from commit `from` to commit `to`: a file
\* tracked in `to` is written, a file tracked only in `from` is deleted, an
\* untracked (ignored) file stays unless `to` writes its path.
SwitchFiles(files, from, to) ==
  to \cup { f \in Untracked(files, from) : f.name \notin Names(to) }

SwitchOut(k) ==
  [s \in Subdirs |-> SwitchFiles(out[s], Tree(head.commit).out[s], Tree(k).out[s])]

SwitchOutExists(k) ==
  IF HasOut(Tree(k)) THEN TRUE
  ELSE IF HasOut(Tree(head.commit))
    THEN outFiles # {} \/ (\E s \in Subdirs : SwitchOut(k)[s] # {})
    ELSE outExists

\* the index after HEAD moves to commit k: staged changes are carried along
SwitchIndex(k) == [Tree(k) EXCEPT !.src.mods = @ \cup StagedMods]

\* the commit `git commit --allow-empty` records: the index, on top of HEAD
COMMIT_AUTHOR_NAME == "GitHub Action (generated code preview)"
NewCommit(msg) ==
  [parent |-> head.commit, tree |-> index, msg |-> msg, author |-> COMMIT_AUTHOR_NAME]

\* one entry of the command log
Cmd(name, arg) == [cmd |-> name, arg |-> arg]

\* ------------------------------------------- generate_and_commit_generated_code
OUTPUT_PATH == "tmp-codegen-diff"

\* a path below OUTPUT_PATH outside the artifact subdirectories:
\* <base>/<head>/<suffix> of a rendered diff, or the bot-message file
OutPath(base, hd, suffix) == << base, hd, suffix >>
BotMessagePath == OutPath("bot-message", "", "")

\* the characters of a path that `find` prints, below the subdirectory
PathChars(name) ==
  CASE name = "src/lib.rs" ->
         << "s", "r", "c", "/", "l", "i", "b", ".", "r", "s" >>
    [] name = "src/model_json.rs" ->
         << "s", "r", "c", "/", "m", "o", "d", "e", "l", "_", "j", "s", "o", "n", ".", "r", "s" >>
    [] name = "source/main.smithy" ->
         << "s", "o", "u", "r", "c", "e", "/", "m", "a", "i", "n", ".", "s", "m", "i", "t", "h", "y" >>
    [] name = "smithy-build-info.json" ->
         << "s", "m", "i", "t", "h", "y", "-", "b", "u", "i", "l", "d", "-", "i", "n", "f", "o", ".", "j", "s", "o", "n" >>
    [] name = "sources/manifest" ->
         << "s", "o", "u", "r", "c", "e", "s", "/", "m", "a", "n", "i", "f", "e", "s", "t" >>
    [] name = "model.json" ->
         << "m", "o", "d", "e", "l", ".", "j", "s", "o", "n" >>
    [] name = "versions.toml" ->
         << "v", "e", "r", "s", "i", "o", "n", "s", ".", "t", "o", "m", "l" >>
    [] name = "sdk/s3/Cargo.toml" ->
         << "s", "d", "k", "/", "s", "3", "/", "C", "a", "r", "g", "o", ".", "t", "o", "m", "l" >>
    [] name = "sdk/ec2/Cargo.toml" ->
         << "s", "d", "k", "/", "e", "c", "2", "/", "C", "a", "r", "g", "o", ".", "t", "o", "m", "l" >>
    [] name = "python/stubs.pyi" ->
         << "p", "y", "t", "h", "o", "n", "/", "s", "t", "u", "b", "s", ".", "p", "y", "i" >>

\* the alternatives of the pattern of
\* `grep -E 'smithy-build-info.json|sources/manifest|model.json'`
GrepPatterns ==
  { << "s", "m", "i", "t", "h", "y", "-", "b", "u", "i", "l", "d", "-", "i", "n", "f", "o", ".", "j", "s", "o", "n" >>,
    << "s", "o", "u", "r", "c", "e", "s", "/", "m", "a", "n", "i", "f", "e", "s", "t" >>,
    << "m", "o", "d", "e", "l", ".", "j", "s", "o", "n" >> }

\* `grep -E` selects a line when an alternative matches anywhere in it; the
\* dot of an alternative matches any character
GrepMatches(name) ==
  \E pat \in GrepPatterns :
    \E i \in 1..(Len(PathChars(name)) - Len(pat) + 1) :
      \A j \in 1..Len(pat) :
        pat[j] = "." \/ PathChars(name)[i + j - 1] = pat[j]

\* the files below the raw `source` directory
UnderSource(name) == name \in { "source/main.smithy" }

FilterCmds(sub) == << Cmd("find|grep|xargs rm -f", sub) >>
RmSourceCmds(sub) == << Cmd("rm -rf source", sub) >>

\* The relocation of the built outputs into OUTPUT_PATH.
MoveCmds(ts) ==
  (IF target_aws_sdk \in ts THEN << Cmd("mv", target_aws_sdk) >> ELSE << >>)
  \o (IF target_codegen_client \in ts
        THEN << Cmd("mv", target_codegen_client) >> ELSE << >>)
  \o (IF target_codegen_server \in ts
        THEN << Cmd("mv", target_codegen_server),
                Cmd("gradlew stubs", target_codegen_server_python),
                Cmd("mv", target_codegen_server_python),
                Cmd("mv", target_codegen_server_typescript) >>
        ELSE << >>)

\* The commands generate_and_commit_generated_code(revision_sha, targets)
\* issues, in order, when none of them fails.
GenCmds(ts) ==
  << Cmd("rm -rf", "aws/sdk/build"),
     Cmd("gradlew clean", "targets"),
     Cmd("gradlew assemble", "targets"),
     Cmd("rm -rf", OUTPUT_PATH),
     Cmd("mkdir", OUTPUT_PATH) >>
  \o MoveCmds(ts)
  \o << Cmd("rm -f", "aws-sdk/versions.toml") >>
  \o RmSourceCmds("codegen-client-test")
  \o FilterCmds("codegen-client-test")
  \o RmSourceCmds("codegen-server-test")
  \o RmSourceCmds("codegen-server-test-python")
  \o RmSourceCmds("codegen-server-test-typescript")
  \o FilterCmds("codegen-server-test")
  \o FilterCmds("codegen-server-test-python")
  \o FilterCmds("codegen-server-test-typescript")
  \o << Cmd("git add -f", OUTPUT_PATH), Cmd("git commit", "") >>

\* semver-checks.py: _generate_and_commit(revision_sha, repository_root)
ScGenCmds ==
  << Cmd("gradlew clean", "targets"),
     Cmd("gradlew assemble", "targets"),
     Cmd("git rm -r", "aws/rust-runtime"),
     Cmd("git rm -r", "rust-runtime"),
     Cmd("mv", "aws-sdk to root"),
     Cmd("git add -f", "aws-sdk"),
     Cmd("git commit", "") >>

\* the targets the running generation builds, and its command list
GenTargets == IF script = "sc" THEN { target_aws_sdk } ELSE DefaultTargets(targetsArg)
GenList == IF script = "sc" THEN ScGenCmds ELSE GenCmds(GenTargets)

RootArg == IF Len(argv) >= 1 THEN argv[1] ELSE ""

\* the repository, as the components of its absolute path; it is the working
\* directory once os.chdir(repository_root) has returned
RepoDir == << "abs", "repo" >>

\* the directory f"{repository_root}" names when it is used after the chdir:
\* an absolute path names itself, a relative one is taken from the working
\* directory, "." adding nothing and a name adding a component
RootAfterChdir(root) ==
  CASE root = "/abs/repo" -> << "abs", "repo" >>
    [] root = "." -> RepoDir
    [] OTHER -> Append(RepoDir, root)

\* semver-checks addresses paths as {repository_root}/... after chdir: they
\* lie in the repository when that prefix still names the repository
PathsInRepo == RootAfterChdir(RootArg) = RepoDir

\* A command that cannot succeed in the current state.
MustFail(c) ==
  CASE c.cmd = "mv" /\ c.arg \in Targets -> build[c.arg] = {}
    [] c.cmd = "mv" /\ c.arg \notin Targets ->
         build[target_aws_sdk] = {} \/ sdkRoot # {} \/ ~PathsInRepo
    [] c.cmd = "git rm -r" -> c.arg \notin index.rt \/ ~PathsInRepo
    [] c.cmd = "git add -f" /\ c.arg = "aws-sdk" -> sdkRoot = {} \/ ~PathsInRepo
    [] OTHER -> FALSE

\* the build output directories after command c (n: the stamp gradle writes)
BuildAfter(c, n) ==
  CASE c.cmd = "rm -rf" /\ c.arg = "aws/sdk/build" ->
         [build EXCEPT ![target_aws_sdk] = {}]
    [] c.cmd = "gradlew clean" ->
         [t \in Targets |-> IF t \in GenTargets THEN {} ELSE build[t]]
    [] c.cmd = "gradlew assemble" ->
         [t \in Targets |->
            IF t \in GenTargets THEN RawOutput(t, WorkingSources, n) ELSE build[t]]
    [] c.cmd = "gradlew stubs" ->
         [build EXCEPT ![target_codegen_server_python] = StubsOutput(WorkingSources, n)]
    [] c.cmd = "mv" /\ c.arg \in Targets -> [build EXCEPT ![c.arg] = {}]
    [] c.cmd = "mv" /\ c.arg \notin Targets -> [build EXCEPT ![target_aws_sdk] = {}]
    [] OTHER -> build

\* the subdirectories of OUTPUT_PATH after command c
OutAfter(c) ==
  CASE c.cmd = "rm -rf" /\ c.arg = OUTPUT_PATH -> EmptyOut
    [] c.cmd = "mv" /\ c.arg \in Targets -> [out EXCEPT ![Subdir(c.arg)] = build[c.arg]]
    [] c.cmd = "rm -f" ->
         [out EXCEPT !["aws-sdk"] = { f \in @ : f.name # "versions.toml" }]
    [] c.cmd = "rm -rf source" ->
         [out EXCEPT ![c.arg] = { f \in @ : ~UnderSource(f.name) }]
    [] c.cmd = "find|grep|xargs rm -f" ->
         [out EXCEPT ![c.arg] = { f \in @ : ~GrepMatches(f.name) }]
    [] OTHER -> out

OutExistsAfter(c) ==
  CASE c.cmd = "rm -rf" /\ c.arg = OUTPUT_PATH -> FALSE
    [] c.cmd = "mkdir" -> TRUE
    [] OTHER -> outExists

OutFilesAfter(c) ==
  IF c.cmd = "rm -rf" /\ c.arg = OUTPUT_PATH THEN {} ELSE outFiles

SdkRootAfter(c) ==
  IF c.cmd = "mv" /\ c.arg \notin Targets THEN build[target_aws_sdk] ELSE sdkRoot

\* the index after command c
IndexAfter(c) ==
  CASE c.cmd = "git add -f" /\ c.arg = OUTPUT_PATH ->
         [index EXCEPT !.out = out, !.extra = outFiles]
    [] c.cmd = "git add -f" /\ c.arg = "aws-sdk" -> [index EXCEPT !.sdk = sdkRoot]
    [] c.cmd = "git rm -r" -> [index EXCEPT !.rt = @ \ { c.arg }]
    [] OTHER -> index

\* run_git_commit_as_github_action(revision_sha): the object store, the
\* branches and HEAD after command c
CommitsAfter(c, rev) ==
  IF c.cmd = "git commit" THEN Append(commits, NewCommit(rev)) ELSE commits
PresentAfter(c) ==
  IF c.cmd = "git commit" THEN present \cup { Len(commits) + 1 } ELSE present
\* (variant: the commit does not move the checked-out branch)
BranchesAfter_Unmoved(c) == branches
BranchesAfter(c) ==
  IF c.cmd = "git commit" /\ head.branch # DETACHED
    THEN [branches EXCEPT ![head.branch] = Len(commits) + 1] ELSE branches
HeadAfter(c) ==
  IF c.cmd = "git commit" THEN [head EXCEPT !.commit = Len(commits) + 1] ELSE head

\* ------------------------------------------------------------ start states
BaseArgs == { SHA_BASE, SHA_HEAD, SHA_REMOTE, "HEAD" }
RootArgs == { ".", "/abs/repo", "repo" }

\* argument vectors of n arguments: root, base revision, then surplus ones
ArgvOfLen(s, n) ==
  LET roots == IF s = "sc" THEN RootArgs \cup { "--self-test" } ELSE { "." }
      bases == IF s \in { "cdr", "sc" } THEN BaseArgs ELSE { SHA_BASE }
  IN { a \in [1..n -> roots \cup bases \cup { "extra" }] :
         /\ n >= 1 => a[1] \in roots
         /\ n >= 2 => a[2] \in bases
         /\ \A i \in 3..n : a[i] = "extra" }

Argvs(s) ==
  IF s = "gen" THEN { << "." >> }
  ELSE UNION { ArgvOfLen(s, n) : n \in 0..MaxArgs }

\* the sources of the three commits of the history; the head commit differs
\* from the base commit in code, or (wsOnly) in whitespace alone
BaseSource == Source(1, 0, {})
HeadSource(wsOnly) == IF wsOnly THEN Source(1, 1, {}) ELSE Source(2, 0, {})
RemoteSource == Source(3, 0, {})
StaleSource == Source(0, 0, {})

\* a generated-code commit left by an earlier run of script s
PriorTree(s, src) ==
  IF s = "sc"
    THEN [SourceTree(src) EXCEPT
            !.sdk = RawOutput(target_aws_sdk, src, 0), !.rt = {}]
    ELSE [SourceTree(src) EXCEPT
            !.out = [d \in Subdirs |-> { GenFile("src/lib.rs", src) }]]

Commit(parent, tree, msg, author) ==
  [parent |-> parent, tree |-> tree, msg |-> msg, author |-> author]

InitialCommits(s, wsOnly) ==
  << Commit(0, SourceTree(BaseSource), "base", "dev"),
     Commit(1, SourceTree(HeadSource(wsOnly)), "head", "dev"),
     Commit(0, SourceTree(RemoteSource), "remote", "dev"),
     Commit(2, PriorTree(s, HeadSource(wsOnly)), SHA_HEAD, COMMIT_AUTHOR_NAME),
     Commit(1, PriorTree(s, BaseSource), SHA_BASE, COMMIT_AUTHOR_NAME) >>

\* the first and the second scratch branch of script s
FirstBranch(s) ==
  CASE s = "cdr" -> HEAD_BRANCH_NAME [] s = "sc" -> CURRENT_BRANCH [] OTHER -> ONCE_BRANCH
SecondBranch(s) ==
  CASE s = "cdr" -> BASE_BRANCH_NAME [] s = "sc" -> BASE_BRANCH [] OTHER -> TWICE_BRANCH

InitialBranches(s, on, pre) ==
  [b \in BranchNames |->
     CASE b = MAIN_BRANCH -> IF on = MAIN_BRANCH THEN 2 ELSE 1
       [] b = FEATURE_BRANCH -> IF on = FEATURE_BRANCH THEN 2 ELSE 0
       [] b \in pre /\ b = FirstBranch(s) -> 4
       [] b \in pre /\ b = SecondBranch(s) -> 5
       [] OTHER -> 0]

Init ==
  /\ script \in Scripts
  /\ argv \in Argvs(script)
  /\ docker \in (IF script = "cdc" THEN { FALSE } ELSE BOOLEAN)
  /\ skipGen \in (IF script = "sc" THEN BOOLEAN ELSE { FALSE })
  /\ targetsArg \in (CASE script = "gen" -> SUBSET Targets
                       [] script = "cdr" -> { {} }
                       [] OTHER -> { { target_aws_sdk } })
  /\ pc = (IF script # "gen" THEN "main" ELSE IF docker THEN "lib_fetch1" ELSE "lib_co1")
  /\ ret = "" /\ gi = 0 /\ genRev = ""
  /\ exit = -1 /\ usage = FALSE /\ chdir = FALSE
  /\ headSha = (IF script = "gen" THEN SHA_HEAD ELSE "")
  /\ \E wsOnly \in (IF script = "cdr" THEN BOOLEAN ELSE { FALSE }),
        on \in (IF script = "cdr" THEN { MAIN_BRANCH, FEATURE_BRANCH, DETACHED }
                ELSE IF script = "gen" THEN { MAIN_BRANCH }
                ELSE { MAIN_BRANCH, DETACHED }),
        pre \in (IF script = "gen" THEN { {} } ELSE SUBSET TempBranches(script)),
        staged \in (IF script = "gen" THEN { FALSE } ELSE BOOLEAN) :
       /\ commits = InitialCommits(script, wsOnly)
       /\ branches = InitialBranches(script, on, pre)
       /\ head = [branch |-> on, commit |-> 2]
       /\ index = [SourceTree(HeadSource(wsOnly)) EXCEPT
                     !.src.mods = IF staged THEN { "s" } ELSE {}]
       /\ unstaged \in (IF script = "gen" THEN { FALSE } ELSE BOOLEAN)
       /\ start = [head |-> head, branches |-> branches, staged |-> staged,
                   unstaged |-> unstaged]
  /\ present = { 1, 2, 4, 5 }
  /\ \E staleBuild \in BOOLEAN :
       build = [t \in Targets |->
                  IF staleBuild THEN RawOutput(t, StaleSource, 0) ELSE {}]
  /\ \E staleOut \in (IF script = "sc" THEN { FALSE } ELSE BOOLEAN) :
       /\ outExists = staleOut
       /\ out = [d \in Subdirs |->
                   IF staleOut THEN { GenFile("src/lib.rs", StaleSource) } ELSE {}]
       /\ outFiles = (IF staleOut
                        THEN { BotMessagePath, OutPath("old-base", "old-head", "aws-sdk") }
                        ELSE {})
       /\ diffTxt = staleOut
  /\ sdkRoot = {}
  /\ results = << >> /\ botMessage = << >> /\ botFile = << >>
  /\ crates = {} /\ checked = {} /\ failures = << >>
  /\ cmds = << >> /\ steps = << >>

\* ------------------------------------------------------------ control flow
BaseArg == IF Len(argv) >= 2 THEN argv[2] ELSE ""

\* (variant: surplus arguments are accepted)
ArgcOk_AtLeast(n) == n >= 3
\* `if len(sys.argv) != 3` fails: n is len(sys.argv), the program name counted
ArgcOk(n) == n = 3

\* semver-checks.py __main__: `len(sys.argv) > 1 and sys.argv[1] == "--self-test"`
SelfTestMode == script = "sc" /\ Len(argv) >= 1 /\ argv[1] = "--self-test"

\* (variant: the status of `git diff --quiet` is not looked at)
TreeIsClean_Unchecked == TRUE
\* `if get_cmd_status("git diff --quiet") != 0` does not abort the run
TreeIsClean == GitDiffQuiet = 0

\* The fetch `if running_in_docker_build()` guards at position p: the revision
\* fetched and the position that follows.
FetchPcs == { "fetch", "sc_fetch_cur", "sc_fetch_base", "lib_fetch1", "lib_fetch2" }
FetchSpec(p) ==
  CASE p = "fetch" -> [rev |-> BaseArg, next |-> "co_head"]
    [] p = "sc_fetch_cur" -> [rev |-> headSha, next |-> "co_cur"]
    [] p = "sc_fetch_base" -> [rev |-> BaseArg, next |-> "co_base_sc"]
    [] p = "lib_fetch1" -> [rev |-> headSha, next |-> "lib_co1"]
    [] p = "lib_fetch2" -> [rev |-> headSha, next |-> "lib_co2"]

\* (variant: the fetch is issued whatever the environment is)
Goto_AlwaysFetch(p) == p
\* position p, or what follows it when p is a fetch that is not issued
Goto(p) == IF p \in FetchPcs /\ ~docker THEN FetchSpec(p).next ELSE p

\* (variant: semver-checks generates whether or not SKIP_GENERATION is set)
AfterCleanCheck_AlwaysGenerate ==
  CASE script = "cdr" -> Goto("fetch")
    [] script = "sc" -> Goto("sc_fetch_cur")

\* where the run continues after the clean-tree check
AfterCleanCheck ==
  CASE script = "cdr" -> Goto("fetch")
    [] script = "sc" -> IF skipGen THEN "co_current" ELSE Goto("sc_fetch_cur")

\* The `git checkout` at position p: revision, branch, mode ("-b": create,
\* "-B": create or reset, "branch": switch to the branch rev, "detach": check
\* out the commit), the step it starts, the revision_sha of the generation that
\* follows ("": none follows), and the position after it.
CoSpec(rev, branch, mode, step, gen, next) ==
  [rev |-> rev, branch |-> branch, mode |-> mode, step |-> step, gen |-> gen,
   next |-> next]

CheckoutPcs ==
  { "co_head", "co_base", "cleanup", "co_cur", "co_base_sc", "co_current",
    "co_once", "co_detach", "co_twice", "lib_co1", "lib_co2" }

\* (variant: the head branch is created and no code is generated on it)
CdrHeadCheckout_NoBuild ==
  CoSpec(headSha, HEAD_BRANCH_NAME, "-b", "CheckoutHead", "", "co_base")
\* codegen-diff-revisions.py: "Generate code for HEAD", "Generate code for base"
CdrHeadCheckout ==
  CoSpec(headSha, HEAD_BRANCH_NAME, "-b", "CheckoutHead", headSha, "co_base")
CdrBaseCheckout ==
  CoSpec(BaseArg, BASE_BRANCH_NAME, "-b", "CheckoutBase", BaseArg, "diffs")

\* (variant: HEAD is not moved back to head_commit_sha before `twice`)
CdcOnceCheckout_NoReturn ==
  CoSpec("HEAD", ONCE_BRANCH, "-B", "Checkout", headSha, "co_twice")
\* check-deterministic-codegen.py: `git checkout -B once`, generation, then
\* `git checkout {head_commit_sha}`
CdcOnceCheckout == CoSpec("HEAD", ONCE_BRANCH, "-B", "Checkout", headSha, "co_detach")

CheckoutSpec(p) ==
  CASE p = "co_head" -> CdrHeadCheckout
    [] p = "co_base" -> CdrBaseCheckout
    [] p = "cleanup" -> CoSpec(MAIN_BRANCH, MAIN_BRANCH, "branch", "Cleanup", "", "del_base")
    [] p = "co_cur" ->
         CoSpec(headSha, CURRENT_BRANCH, "-B", "Checkout", headSha, Goto("sc_fetch_base"))
    [] p = "co_base_sc" ->
         CoSpec(BaseArg, BASE_BRANCH, "-B", "Checkout", BaseArg, "co_current")
    [] p = "co_current" ->
         CoSpec(CURRENT_BRANCH, CURRENT_BRANCH, "branch", "Checkout", "", "sc_chdir")
    [] p = "co_once" -> CdcOnceCheckout
    [] p = "co_detach" -> CoSpec(headSha, DETACHED, "detach", "Checkout", "", "co_twice")
    [] p = "co_twice" -> CoSpec("HEAD", TWICE_BRANCH, "-B", "Checkout", headSha, "final_diff")
    [] p = "lib_co1" ->
         CoSpec(headSha, ONCE_BRANCH, "-B", "Checkout", headSha, Goto("lib_fetch2"))
    [] p = "lib_co2" -> CoSpec(headSha, TWICE_BRANCH, "-B", "Checkout", headSha, "end")

\* (variant: -b resets a branch that exists, as -B does)
CheckoutTarget_Forced(c) == IF c.mode = "branch" THEN branches[c.rev] ELSE Resolve(c.rev)
\* the commit a checkout moves HEAD to (0: the checkout fails)
CheckoutTarget(c) ==
  LET k == IF c.mode = "branch" THEN branches[c.rev] ELSE Resolve(c.rev)
  IN IF c.mode = "-b" /\ branches[c.branch] # 0 THEN 0 ELSE k

CheckoutCmd(c) ==
  CASE c.mode = "-b" -> Cmd("git checkout -b", c.branch)
    [] c.mode = "-B" -> Cmd("git checkout -B", c.branch)
    [] OTHER -> Cmd("git checkout", c.rev)

\* the step a generation belongs to
BuildStepName ==
  CASE script = "cdr" /\ ret = "co_base" -> "BuildHead"
    [] script = "cdr" /\ ret = "diffs" -> "BuildBase"
    [] OTHER -> "Build"

\* ------------------------------------------------------------------ actions
\* (variant: the failure is swallowed, as with check=False)
Abort_Swallowed == pc' = "done" /\ exit' = 0
\* an uncaught exception, or sys.exit(1): the run ends with status 1
Abort == pc' = "done" /\ exit' = 1

\* main(): the argument count is wrong
Usage ==
  /\ pc = "main" /\ script \in { "cdr", "sc" } /\ ~SelfTestMode
  /\ ~ArgcOk(Len(argv) + 1)
  /\ usage' = TRUE /\ Abort
  /\ UNCHANGED << inVars, ret, gi, genRev, chdir, headSha, gitVars, fsVars, repVars,
                  scVars, cmds, steps >>

\* semver-checks.py --self-test: sys.argv.pop(); unittest.main().  The tests
\* pass or fail (0, 1); arguments left over are rejected by unittest (2).
SelfTest ==
  /\ pc = "main" /\ SelfTestMode
  /\ exit' \in (IF Len(argv) = 1 THEN { 0, 1 } ELSE { 2 })
  /\ pc' = "done"
  /\ UNCHANGED << inVars, ret, gi, genRev, usage, chdir, headSha, gitVars, fsVars,
                  repVars, scVars, cmds, steps >>

\* main(): the argument count is right (check-deterministic-codegen reads
\* sys.argv[1] without a check: IndexError when it is missing)
Start ==
  /\ pc = "main" /\ ~SelfTestMode
  /\ \/ script \in { "cdr", "sc" } /\ ArgcOk(Len(argv) + 1) /\ pc' = "chdir" /\ exit' = exit
     \/ script = "cdc" /\ Len(argv) >= 1 /\ pc' = "chdir" /\ exit' = exit
     \/ script = "cdc" /\ Len(argv) = 0 /\ Abort
  /\ UNCHANGED << inVars, ret, gi, genRev, usage, chdir, headSha, gitVars, fsVars,
                  repVars, scVars, cmds, steps >>

\* os.chdir(repository_root); it raises when the directory cannot be entered
Chdir ==
  /\ pc = "chdir"
  /\ \/ chdir' = TRUE /\ pc' = "revparse" /\ exit' = exit
     \/ chdir' = chdir /\ Abort
  /\ UNCHANGED << inVars, ret, gi, genRev, usage, headSha, gitVars, fsVars, repVars,
                  scVars, cmds, steps >>

\* (_, head_commit_sha, _) = get_cmd_output("git rev-parse HEAD")
RevParse ==
  /\ pc = "revparse"
  /\ cmds' = Append(cmds, Cmd("git rev-parse", "HEAD"))
  /\ \/ /\ headSha' = RevParseHead
        /\ pc' = (IF script = "cdc" THEN "co_once" ELSE "cleancheck")
        /\ exit' = exit
     \/ headSha' = headSha /\ Abort
  /\ UNCHANGED << inVars, ret, gi, genRev, usage, chdir, gitVars, fsVars, repVars,
                  scVars, steps >>

\* "Make sure the working tree is clean"
CleanCheck ==
  /\ pc = "cleancheck"
  /\ cmds' = Append(cmds, Cmd("git diff --quiet", ""))
  /\ steps' = Append(steps, "ValidateCleanTree")
  /\ IF TreeIsClean THEN pc' = AfterCleanCheck /\ exit' = exit ELSE Abort
  /\ UNCHANGED << inVars, ret, gi, genRev, usage, chdir, headSha, gitVars, fsVars,
                  repVars, scVars >>

\* run("git fetch --no-tags --progress --no-recurse-submodules --depth=1 origin <rev>")
Fetch ==
  /\ pc \in FetchPcs
  /\ cmds' = Append(cmds, Cmd("git fetch", FetchSpec(pc).rev))
  /\ \/ /\ present' = present \cup (IF FetchSpec(pc).rev = SHA_REMOTE THEN { 3 } ELSE {})
        /\ pc' = FetchSpec(pc).next /\ exit' = exit
     \/ present' = present /\ Abort
  /\ UNCHANGED << inVars, ret, gi, genRev, usage, chdir, headSha, commits, branches,
                  head, index, unstaged, fsVars, repVars, scVars, steps >>

\* run("git checkout ..."): HEAD, the branch, the index and the tracked files
\* of the working tree move to the target commit
Checkout ==
  /\ pc \in CheckoutPcs
  /\ LET c == CheckoutSpec(pc)
         k == CheckoutTarget(c)
     IN /\ k # 0
        /\ cmds' = Append(cmds, CheckoutCmd(c))
        /\ steps' = Append(steps, c.step)
        /\ head' = [branch |-> IF c.mode = "branch" THEN c.rev ELSE c.branch, commit |-> k]
        /\ branches' = (IF c.mode \in { "-b", "-B" }
                          THEN [branches EXCEPT ![c.branch] = k] ELSE branches)
        /\ index' = SwitchIndex(k)
        /\ out' = SwitchOut(k)
        /\ outExists' = SwitchOutExists(k)
        /\ outFiles' = (outFiles \ Tree(head.commit).extra) \cup Tree(k).extra
        /\ sdkRoot' = SwitchFiles(sdkRoot, Tree(head.commit).sdk, Tree(k).sdk)
        /\ IF c.gen # ""
             THEN pc' = "gen" /\ ret' = c.next /\ gi' = 1 /\ genRev' = c.gen
             ELSE pc' = c.next /\ UNCHANGED << ret, gi, genRev >>
  /\ UNCHANGED << inVars, exit, usage, chdir, headSha, commits, present, unstaged,
                  build, diffTxt, repVars, scVars >>

\* the checkout exits non-zero: run() raises
CheckoutFail ==
  /\ pc \in CheckoutPcs
  /\ cmds' = Append(cmds, CheckoutCmd(CheckoutSpec(pc)))
  /\ steps' = Append(steps, CheckoutSpec(pc).step)
  /\ Abort
  /\ UNCHANGED << inVars, ret, gi, genRev, usage, chdir, headSha, gitVars, fsVars,
                  repVars, scVars >>

\* one command of the running generation succeeds
GenStep ==
  /\ pc = "gen" /\ gi \in 1..Len(GenList)
  /\ LET c == GenList[gi] IN
       /\ ~MustFail(c)
       /\ cmds' = Append(cmds, c)
       /\ steps' = (IF gi = 1 THEN Append(steps, BuildStepName) ELSE steps)
       /\ \E n \in (IF c.cmd \in { "gradlew assemble", "gradlew stubs" }
                      THEN 0..MaxNonce ELSE { 0 }) :
            build' = BuildAfter(c, n)
       /\ out' = OutAfter(c)
       /\ outExists' = OutExistsAfter(c)
       /\ outFiles' = OutFilesAfter(c)
       /\ sdkRoot' = SdkRootAfter(c)
       /\ index' = IndexAfter(c)
       /\ commits' = CommitsAfter(c, genRev)
       /\ present' = PresentAfter(c)
       /\ branches' = BranchesAfter(c)
       /\ head' = HeadAfter(c)
       /\ IF gi = Len(GenList)
            THEN pc' = ret /\ gi' = 0
            ELSE pc' = pc /\ gi' = gi + 1
  /\ UNCHANGED << inVars, ret, genRev, exit, usage, chdir, headSha, unstaged, diffTxt,
                  repVars, scVars >>

\* one command of the running generation exits non-zero: get_cmd_output and
\* run raise, nothing catches
GenFail ==
  /\ pc = "gen" /\ gi \in 1..Len(GenList)
  /\ cmds' = Append(cmds, GenList[gi])
  /\ steps' = (IF gi = 1 THEN Append(steps, BuildStepName) ELSE steps)
  /\ Abort
  /\ UNCHANGED << inVars, ret, gi, genRev, usage, chdir, headSha, gitVars, fsVars,
                  repVars, scVars >>

\* ------------------------------------------------------- make_diff, make_diffs
DiffCall(title, sub, suffix, ws) ==
  [title |-> title, sub |-> sub, suffix |-> suffix, ws |-> ws]

\* the ten make_diff calls of make_diffs, in order
DiffCalls ==
  << DiffCall("AWS SDK", "aws-sdk", "aws-sdk", TRUE),
     DiffCall("AWS SDK", "aws-sdk", "aws-sdk-ignore-whitespace", FALSE),
     DiffCall("Client Test", "codegen-client-test", "client-test", TRUE),
     DiffCall("Client Test", "codegen-client-test", "client-test-ignore-whitespace", FALSE),
     DiffCall("Server Test", "codegen-server-test", "server-test", TRUE),
     DiffCall("Server Test", "codegen-server-test", "server-test-ignore-whitespace", FALSE),
     DiffCall("Server Test Python", "codegen-server-test-python",
              "server-test-python", TRUE),
     DiffCall("Server Test Python", "codegen-server-test-python",
              "server-test-python-ignore-whitespace", FALSE),
     DiffCall("Server Test Typescript", "codegen-server-test-typescript",
              "server-test-typescript", TRUE),
     DiffCall("Server Test Typescript", "codegen-server-test-typescript",
              "server-test-typescript-ignore-whitespace", FALSE) >>

\* (variant: -b is passed when whitespace is true)
DiffView_FlagSwapped(files, ws) ==
  IF ws THEN { [f EXCEPT !.ws = 0] : f \in files } ELSE files
\* what `git diff -b` compares: the files with their whitespace layout dropped
DiffView(files, ws) == IF ws THEN files ELSE { [f EXCEPT !.ws = 0] : f \in files }

\* (variant: the comparison is not limited to the path of the call)
DiffStatus_WholeTree(d) ==
  IF branches[BASE_BRANCH_NAME] = 0 \/ branches[HEAD_BRANCH_NAME] = 0 THEN 128
  ELSE IF \A sub \in DOMAIN Tree(branches[BASE_BRANCH_NAME]).out :
            DiffView(Tree(branches[BASE_BRANCH_NAME]).out[sub], d.ws)
              = DiffView(Tree(branches[HEAD_BRANCH_NAME]).out[sub], d.ws)
    THEN 0 ELSE 1

\* get_cmd_status("git diff --quiet [-b] BASE HEAD -- <path>")
DiffStatus(d) ==
  IF branches[BASE_BRANCH_NAME] = 0 \/ branches[HEAD_BRANCH_NAME] = 0 THEN 128
  ELSE IF DiffView(Tree(branches[BASE_BRANCH_NAME]).out[d.sub], d.ws)
            = DiffView(Tree(branches[HEAD_BRANCH_NAME]).out[d.sub], d.ws)
    THEN 0 ELSE 1

\* what make_diff returns: None, or "<base>/<head>/<suffix>/index.html"
Loc(base, hd, suffix) == [base |-> base, head |-> hd, suffix |-> suffix]
None == Loc("", "", "")

\* the three checked commands make_diff runs when the diff is not empty
RenderCmds(d) ==
  << Cmd("mkdir -p", d.suffix), Cmd("git diff --output", d.suffix),
     Cmd("difftags", d.suffix) >>

CDN_URL == "https://d2luzm2xt3nokh.cloudfront.net"

\* (variant: the line breaks of the message are line feeds)
UNESCAPED_NEWLINE == "\n"

\* A Python string is modelled as the sequence of its pieces.  Python's "\\n"
\* is the two characters backslash and n; "\n" would be a line feed.
ESCAPED_NEWLINE == "\\n"
LINE_FEED == "\n"

\* f"{diff_location}": the path make_diff returned, or the text of None
LocText(loc) ==
  IF loc = None THEN << "None" >>
  ELSE << loc.base, "/", loc.head, "/", loc.suffix, "/index.html" >>

\* f"[{text}]({CDN_URL}/codegen-diff/{location})"
LinkText(text, loc) ==
  << "[", text, "](", CDN_URL, "/codegen-diff/" >> \o LocText(loc) \o << ")" >>

\* (variant: the empty text is returned when either location is None)
DiffLink_EitherNone(diff_text, empty_diff_text, diff_location, alternate_text, alternate_location) ==
  IF diff_location = None \/ alternate_location = None
    THEN << empty_diff_text >>
    ELSE LinkText(diff_text, diff_location) \o << " (" >>
           \o LinkText(alternate_text, alternate_location) \o << ")" >>

\* diff_link: the empty text, or the text linked to the page at diff_location,
\* followed in parentheses by the alternate text linked to alternate_location
DiffLink(diff_text, empty_diff_text, diff_location, alternate_text, alternate_location) ==
  IF diff_location = None
    THEN << empty_diff_text >>
    ELSE LinkText(diff_text, diff_location) \o << " (" >>
           \o LinkText(alternate_text, alternate_location) \o << ")" >>

EmptyText(title) ==
  CASE title = "AWS SDK" -> "No codegen difference in the AWS SDK"
    [] title = "Client Test" -> "No codegen difference in the Client Test"
    [] title = "Server Test" -> "No codegen difference in the Server Test"
    [] title = "Server Test Python" -> "No codegen difference in the Server Test Python"
    [] title = "Server Test Typescript" ->
         "No codegen difference in the Server Test Typescript"

\* (variant: the whitespace-insensitive result is the primary location)
Links_Swapped(res, i) ==
  DiffLink(DiffCalls[2 * i - 1].title, EmptyText(DiffCalls[2 * i - 1].title),
           res[2 * i], "ignoring whitespace", res[2 * i - 1])

\* the links of category i (1: AWS SDK ... 5: Server Test Typescript), made of
\* the results res of the ten make_diff calls
Links(res, i) ==
  DiffLink(DiffCalls[2 * i - 1].title, EmptyText(DiffCalls[2 * i - 1].title),
           res[2 * i - 1], "ignoring whitespace", res[2 * i])

\* f"- {links}\\n"
Bullet(links) == << "- " >> \o links \o << ESCAPED_NEWLINE >>

\* (variant: the server bullet precedes the client bullet)
MakeDiffsMessage_Reordered(res) ==
  << "A new generated diff is ready to view.", ESCAPED_NEWLINE >>
    \o Bullet(Links(res, 1)) \o Bullet(Links(res, 3)) \o Bullet(Links(res, 2))
    \o Bullet(Links(res, 4)) \o Bullet(Links(res, 5))

\* make_diffs: the message returned for the results res
MakeDiffsMessage(res) ==
  << "A new generated diff is ready to view.", ESCAPED_NEWLINE >>
    \o Bullet(Links(res, 1)) \o Bullet(Links(res, 2)) \o Bullet(Links(res, 3))
    \o Bullet(Links(res, 4)) \o Bullet(Links(res, 5))

\* write_to_file: open(path, "w") writes the text, a line feed as the
\* platform's line separator
LineSeparators == { LINE_FEED, "\r\n" }
WriteToFile(text, linesep) ==
  [i \in 1..Len(text) |-> IF text[i] = LINE_FEED THEN linesep ELSE text[i]]

\* one make_diff call of make_diffs
MakeDiff ==
  /\ pc = "diffs" /\ Len(results) < Len(DiffCalls)
  /\ LET d == DiffCalls[Len(results) + 1]
         probe == Append(cmds, Cmd("git diff --quiet", d.suffix))
     IN /\ steps' = (IF results = << >> THEN Append(steps, "ComputeDiffs") ELSE steps)
        /\ IF DiffStatus(d) = 0
             THEN /\ cmds' = probe
                  /\ results' = Append(results, None)
                  /\ UNCHANGED << outExists, outFiles, diffTxt >>
             ELSE /\ cmds' = probe \o RenderCmds(d)
                  /\ results' = Append(results, Loc(BaseArg, headSha, d.suffix))
                  /\ outExists' = TRUE
                  /\ outFiles' = outFiles \cup { OutPath(BaseArg, headSha, d.suffix) }
                  /\ diffTxt' = TRUE
        /\ pc' = (IF Len(results) + 1 = Len(DiffCalls) THEN "write" ELSE pc)
  /\ UNCHANGED << inVars, ret, gi, genRev, exit, usage, chdir, headSha, gitVars, build,
                  out, sdkRoot, botMessage, botFile, scVars >>

\* one of the checked commands of a make_diff call exits non-zero
MakeDiffFail ==
  /\ pc = "diffs" /\ Len(results) < Len(DiffCalls)
  /\ LET d == DiffCalls[Len(results) + 1] IN
       /\ DiffStatus(d) # 0
       /\ \E j \in 1..Len(RenderCmds(d)) :
            /\ cmds' = Append(cmds, Cmd("git diff --quiet", d.suffix))
                         \o SubSeq(RenderCmds(d), 1, j)
            /\ outExists' = (outExists \/ j > 1)
            /\ outFiles' = (IF j > 1 THEN outFiles \cup { OutPath(BaseArg, headSha, d.suffix) }
                            ELSE outFiles)
            /\ diffTxt' = (diffTxt \/ j > 2)
  /\ steps' = (IF results = << >> THEN Append(steps, "ComputeDiffs") ELSE steps)
  /\ Abort
  /\ UNCHANGED << inVars, ret, gi, genRev, usage, chdir, headSha, gitVars, build, out,
                  sdkRoot, repVars, scVars >>

\* (variant: the test of running_in_docker_build() is inverted)
AfterReport_Inverted == IF docker THEN "cleanup" ELSE "end"
\* "Clean-up that's only really useful when testing the script in local-dev":
\* `if not running_in_docker_build()`
AfterReport == IF docker THEN "end" ELSE "cleanup"

\* write_to_file(f"{OUTPUT_PATH}/bot-message", bot_message); open() raises
\* when OUTPUT_PATH does not exist
WriteReport ==
  /\ pc = "write"
  /\ steps' = Append(steps, "WriteReport")
  /\ IF outExists
       THEN /\ botMessage' = MakeDiffsMessage(results)
            /\ \E linesep \in LineSeparators :
                 botFile' = WriteToFile(MakeDiffsMessage(results), linesep)
            /\ outFiles' = outFiles \cup { BotMessagePath }
            /\ pc' = AfterReport
            /\ exit' = exit
       ELSE Abort /\ UNCHANGED << botMessage, botFile, outFiles >>
  /\ UNCHANGED << inVars, ret, gi, genRev, usage, chdir, headSha, gitVars, build,
                  outExists, out, sdkRoot, diffTxt, results, scVars, cmds >>

\* run(f"git branch -D {BASE_BRANCH_NAME}"), run(f"git branch -D {HEAD_BRANCH_NAME}")
DeletePcs == { "del_base", "del_head" }
DeleteSpec(p) ==
  IF p = "del_base" THEN [branch |-> BASE_BRANCH_NAME, next |-> "del_head"]
  ELSE [branch |-> HEAD_BRANCH_NAME, next |-> "end"]

DeleteBranch ==
  /\ pc \in DeletePcs
  /\ cmds' = Append(cmds, Cmd("git branch -D", DeleteSpec(pc).branch))
  /\ \/ /\ branches[DeleteSpec(pc).branch] # 0
        /\ head.branch # DeleteSpec(pc).branch
        /\ branches' = [branches EXCEPT ![DeleteSpec(pc).branch] = 0]
        /\ pc' = DeleteSpec(pc).next /\ exit' = exit
     \/ branches' = branches /\ Abort
  /\ UNCHANGED << inVars, ret, gi, genRev, usage, chdir, headSha, commits, present,
                  head, index, unstaged, fsVars, repVars, scVars, steps >>

\* check-deterministic-codegen: get_cmd_output('git diff once..twice --exit-code')
TreesDiffer(b1, b2) ==
  \/ branches[b1] = 0 \/ branches[b2] = 0
  \/ Tree(branches[b1]) # Tree(branches[b2])

FinalDiff ==
  /\ pc = "final_diff"
  /\ cmds' = Append(cmds, Cmd("git diff --exit-code", "once..twice"))
  /\ \/ ~TreesDiffer(ONCE_BRANCH, TWICE_BRANCH) /\ pc' = "end" /\ exit' = exit
     \/ Abort
  /\ UNCHANGED << inVars, ret, gi, genRev, usage, chdir, headSha, gitVars, fsVars,
                  repVars, scVars, steps >>

\* the script returns from main(): exit status 0
Finish ==
  /\ pc = "end"
  /\ pc' = "done" /\ exit' = 0
  /\ steps' = (IF script = "cdr" /\ docker THEN Append(steps, "LeaveBranches") ELSE steps)
  /\ UNCHANGED << inVars, ret, gi, genRev, usage, chdir, headSha, gitVars, fsVars,
                  repVars, scVars, cmds >>

\* ------------------------------------------------- semver-checks: the crates
CrateNames == { "s3", "ec2" }

\* os.listdir() of <repository_root>/aws-sdk/sdk
CrateDirs(files) == { c \in CrateNames : CargoToml(c) \in Names(files) }

\* deny_list = []
DenyList == {}

\* (variant: the crate is not looked up on the base branch)
InBase_Unchecked(path) == TRUE
\* get_cmd_status(f'git cat-file -e base:./{path}/Cargo.toml') == 0
InBase(path) ==
  /\ branches[BASE_BRANCH] # 0
  /\ CargoToml(path) \in Names(Tree(branches[BASE_BRANCH]).sdk)

\* os.chdir(sdk_directory) and os.listdir(): the directory must exist
ScList ==
  /\ pc = "sc_chdir"
  /\ IF PathsInRepo /\ CrateDirs(sdkRoot) # {}
       THEN crates' = CrateDirs(sdkRoot) /\ pc' = "sc_loop" /\ exit' = exit
       ELSE crates' = crates /\ Abort
  /\ UNCHANGED << inVars, ret, gi, genRev, usage, chdir, headSha, gitVars, fsVars,
                  repVars, checked, failures, cmds, steps >>

\* one iteration of `for path in os.listdir()`, for a crate that is skipped
ScSkip ==
  /\ pc = "sc_loop"
  /\ \E path \in crates :
       /\ crates' = crates \ { path }
       /\ \/ path \in DenyList /\ cmds' = cmds
          \/ /\ path \notin DenyList /\ ~InBase(path)
             /\ cmds' = Append(cmds, Cmd("git cat-file -e", path))
  /\ UNCHANGED << inVars, ctlVars, gitVars, fsVars, repVars, checked, failures, steps >>

\* (variant: cargo semver-checks is run with check=True)
ScCheck_Checked ==
  /\ pc = "sc_loop"
  /\ \E path \in crates, status \in { 0, 1 } :
       /\ path \notin DenyList /\ InBase(path)
       /\ cmds' = cmds \o << Cmd("git cat-file -e", path), Cmd("cargo pkgid", path),
                             Cmd("cargo semver-checks", path) >>
       /\ IF status = 0
            THEN /\ crates' = crates \ { path }
                 /\ checked' = checked \cup { path }
                 /\ pc' = pc /\ exit' = exit
            ELSE /\ crates' = crates /\ checked' = checked
                 /\ pc' = "done" /\ exit' = 1
       /\ failures' = failures
  /\ UNCHANGED << inVars, ret, gi, genRev, usage, chdir, headSha, gitVars, fsVars,
                  repVars, steps >>

\* one iteration for a crate that is checked: cargo pkgid, then cargo
\* semver-checks with check=False, whose status decides ok or failed
ScCheck ==
  /\ pc = "sc_loop"
  /\ \E path \in crates, status \in { 0, 1 } :
       /\ path \notin DenyList /\ InBase(path)
       /\ crates' = crates \ { path }
       /\ checked' = checked \cup { path }
       /\ failures' = (IF status = 0 THEN failures ELSE Append(failures, path))
       /\ cmds' = cmds \o << Cmd("git cat-file -e", path), Cmd("cargo pkgid", path),
                             Cmd("cargo semver-checks", path) >>
  /\ UNCHANGED << inVars, ctlVars, gitVars, fsVars, repVars, steps >>

\* `cargo pkgid` exits non-zero: get_cmd_output raises
ScCheckAbort ==
  /\ pc = "sc_loop"
  /\ \E path \in crates :
       /\ path \notin DenyList /\ InBase(path)
       /\ cmds' = cmds \o << Cmd("git cat-file -e", path), Cmd("cargo pkgid", path) >>
  /\ Abort
  /\ UNCHANGED << inVars, ret, gi, genRev, usage, chdir, headSha, gitVars, fsVars,
                  repVars, scVars, steps >>

\* after the loop: `if failures: ... exit(1)`
ScEnd ==
  /\ pc = "sc_loop" /\ crates = {}
  /\ pc' = "done"
  /\ exit' = (IF failures # << >> THEN 1 ELSE 0)
  /\ UNCHANGED << inVars, ret, gi, genRev, usage, chdir, headSha, gitVars, fsVars,
                  repVars, scVars, cmds, steps >>

\* ----------------------------------------------------------- specification
Next ==
  \/ Usage \/ SelfTest \/ Start \/ Chdir \/ RevParse \/ CleanCheck \/ Fetch
  \/ Checkout \/ CheckoutFail \/ GenStep \/ GenFail
  \/ MakeDiff \/ MakeDiffFail \/ WriteReport \/ DeleteBranch \/ FinalDiff \/ Finish
  \/ ScList \/ ScSkip \/ ScCheck \/ ScCheckAbort \/ ScEnd

Spec == Init /\ [][Next]_vars

\* ------------------------------------------------- diff_link called directly
\* diff_link(diff_text, empty_diff_text, diff_location, alternate_text,
\* alternate_location) applied to arguments of the caller's choice: argv holds
\* the three texts, results the two locations, botMessage receives the result.
LinkTitles == { "AWS SDK", "Client Test", "Server Test" }
LinkLocations ==
  { None, Loc(SHA_BASE, SHA_HEAD, "aws-sdk"),
    Loc(SHA_BASE, SHA_HEAD, "aws-sdk-ignore-whitespace"),
    Loc("HEAD", SHA_HEAD, "client-test") }

LinkInit ==
  /\ script = "diff_link"
  /\ \E t \in LinkTitles, e \in LinkTitles :
       argv = << t, EmptyText(e), "ignoring whitespace" >>
  /\ \E l \in LinkLocations, a \in LinkLocations : results = << l, a >>
  /\ docker = FALSE /\ skipGen = FALSE /\ targetsArg = {}
  /\ pc = "call" /\ ret = "" /\ gi = 0 /\ genRev = ""
  /\ exit = -1 /\ usage = FALSE /\ chdir = FALSE /\ headSha = ""
  /\ commits = InitialCommits("cdr", FALSE)
  /\ branches = InitialBranches("cdr", MAIN_BRANCH, {})
  /\ head = [branch |-> MAIN_BRANCH, commit |-> 2]
  /\ index = SourceTree(HeadSource(FALSE))
  /\ unstaged = FALSE
  /\ start = [head |-> head, branches |-> branches, staged |-> FALSE,
              unstaged |-> FALSE]
  /\ present = { 1, 2, 4, 5 }
  /\ build = [t \in Targets |-> {}]
  /\ outExists = FALSE /\ out = EmptyOut /\ outFiles = {} /\ diffTxt = FALSE
  /\ sdkRoot = {}
  /\ botMessage = << >> /\ botFile = << >>
  /\ crates = {} /\ checked = {} /\ failures = << >>
  /\ cmds = << >> /\ steps = << >>

CallDiffLink ==
  /\ script = "diff_link" /\ pc = "call"
  /\ botMessage' = DiffLink(argv[1], argv[2], results[1], argv[3], results[2])
  /\ pc' = "done" /\ exit' = 0
  /\ UNCHANGED << inVars, ret, gi, genRev, usage, chdir, headSha, gitVars, fsVars,
                  results, botFile, scVars, cmds, steps >>

LinkSpec == LinkInit /\ [][CallDiffLink]_vars

\* ------------------------------------------ parse_package_id called directly
\* A package id is the sequence of its characters; the letters stand for every
\* character other than '/', '#' and '@'.
IdChars == { "/", "#", "@", "a", "b" }
Ids == UNION { [1..n -> IdChars] : n \in 0..MaxIdLen }

\* `c in s`
Has(s, c) == \E i \in 1..Len(s) : s[i] = c

\* s.split(sep) for a separator of one character
RECURSIVE Split(_, _)
Split(s, sep) ==
  IF ~Has(s, sep) THEN << s >>
  ELSE LET i == CHOOSE k \in 1..Len(s) : s[k] = sep /\ \A j \in 1..(k - 1) : s[j] # sep
       IN << SubSeq(s, 1, i - 1) >> \o Split(SubSeq(s, i + 1, Len(s)), sep)

\* (variant: the `name@version` shape is not told apart)
parse_package_id_OneShape(id) ==
  IF Has(id, "#")
    THEN [raised |-> FALSE,
          value |-> Split(Split(id, "/")[Len(Split(id, "/"))], "#")[1]]
    ELSE [raised |-> TRUE, value |-> << >>]

\* parse_package_id(id): the value returned, or raised for Exception("unknown format")
parse_package_id(id) ==
  IF Has(id, "#") /\ Has(id, "@")
    THEN [raised |-> FALSE, value |-> Split(Split(id, "#")[2], "@")[1]]
  ELSE IF Has(id, "#")
    THEN [raised |-> FALSE,
          value |-> Split(Split(id, "/")[Len(Split(id, "/"))], "#")[1]]
    ELSE [raised |-> TRUE, value |-> << >>]

\* argv holds the id; results receives the value returned, and the exception
\* nobody catches ends the interpreter with status 1
ParseInit ==
  /\ script = "parse_package_id"
  /\ \E id \in Ids : argv = << id >>
  /\ results = << >>
  /\ docker = FALSE /\ skipGen = FALSE /\ targetsArg = {}
  /\ pc = "call" /\ ret = "" /\ gi = 0 /\ genRev = ""
  /\ exit = -1 /\ usage = FALSE /\ chdir = FALSE /\ headSha = ""
  /\ commits = InitialCommits("sc", FALSE)
  /\ branches = InitialBranches("sc", MAIN_BRANCH, {})
  /\ head = [branch |-> MAIN_BRANCH, commit |-> 2]
  /\ index = SourceTree(HeadSource(FALSE))
  /\ unstaged = FALSE
  /\ start = [head |-> head, branches |-> branches, staged |-> FALSE,
              unstaged |-> FALSE]
  /\ present = { 1, 2, 4, 5 }
  /\ build = [t \in Targets |-> {}]
  /\ outExists = FALSE /\ out = EmptyOut /\ outFiles = {} /\ diffTxt = FALSE
  /\ sdkRoot = {}
  /\ botMessage = << >> /\ botFile = << >>
  /\ crates = {} /\ checked = {} /\ failures = << >>
  /\ cmds = << >> /\ steps = << >>

CallParse ==
  /\ script = "parse_package_id" /\ pc = "call"
  /\ LET r == parse_package_id(argv[1]) IN
       /\ results' = (IF r.raised THEN << >> ELSE << r.value >>)
       /\ exit' = (IF r.raised THEN 1 ELSE 0)
  /\ pc' = "done"
  /\ UNCHANGED << inVars, ret, gi, genRev, usage, chdir, headSha, gitVars, fsVars,
                  botMessage, botFile, scVars, cmds, steps >>

ParseSpec == ParseInit /\ [][CallParse]_vars

\* ------------------------------------------ run, get_cmd_output called directly
\* A text is the sequence of its pieces; blank and line-feed pieces are white
\* space.  argv holds the call and what the process does: the function, the
\* command, check, and the status, stdout and stderr of the process.
RunCommands == { "git fetch origin", "cargo pkgid" }
RunStatuses == { 0, 1, 2 }
RunTexts == { << >>, << "boom" >>, << " ", "boom", " ", "boom", "\n" >> }
ProcessRunners == { "run", "get_cmd_output" }

\* str(returncode)
StatusText(n) == CASE n = 0 -> "0" [] n = 1 -> "1" [] OTHER -> "2"

\* text.strip()
RECURSIVE Strip(_)
Strip(text) ==
  IF text = << >> THEN text
  ELSE IF Head(text) \in { " ", "\n" } THEN Strip(Tail(text))
  ELSE IF text[Len(text)] \in { " ", "\n" } THEN Strip(SubSeq(text, 1, Len(text) - 1))
  ELSE text

\* (variant: get_cmd_output raises on a non-zero status whatever check is)
get_cmd_output_AlwaysChecks(command, check, status, stdout, stderr) ==
  IF status # 0
    THEN [raised |-> TRUE, value |-> << >>,
          error |-> << "failed to run '", command, ".\n" >> \o Strip(stdout)
                      \o << "\n" >> \o Strip(stderr)]
    ELSE [raised |-> FALSE, value |-> << status, Strip(stdout), Strip(stderr) >>,
          error |-> << >>]

\* get_cmd_output(command, check): subprocess.run(..., capture_output=True,
\* check=False), then `raise Exception(f"failed to run '{command}.\n{stdout}\n{stderr}")`
\* or `return result.returncode, stdout, stderr`
get_cmd_output(command, check, status, stdout, stderr) ==
  IF check /\ status # 0
    THEN [raised |-> TRUE, value |-> << >>,
          error |-> << "failed to run '", command, ".\n" >> \o Strip(stdout)
                      \o << "\n" >> \o Strip(stderr)]
    ELSE [raised |-> FALSE, value |-> << status, Strip(stdout), Strip(stderr) >>,
          error |-> << >>]

\* run(command, check): subprocess.run(command, stdout=sys.stderr,
\* stderr=sys.stderr, check=check) raises CalledProcessError(returncode, cmd),
\* nothing captured; run returns None
run(command, check, status, stdout, stderr) ==
  IF check /\ status # 0
    THEN [raised |-> TRUE, value |-> << >>,
          error |-> << "Command '", command, "' returned non-zero exit status ",
                       StatusText(status), "." >>]
    ELSE [raised |-> FALSE, value |-> << >>, error |-> << >>]

RunInit ==
  /\ script \in ProcessRunners
  /\ \E command \in RunCommands, check \in BOOLEAN, status \in RunStatuses,
        stdout \in RunTexts, stderr \in RunTexts :
       argv = << command, check, status, stdout, stderr >>
  /\ results = << >>
  /\ docker = FALSE /\ skipGen = FALSE /\ targetsArg = {}
  /\ pc = "call" /\ ret = "" /\ gi = 0 /\ genRev = ""
  /\ exit = -1 /\ usage = FALSE /\ chdir = FALSE /\ headSha = ""
  /\ commits = InitialCommits("cdr", FALSE)
  /\ branches = InitialBranches("cdr", MAIN_BRANCH, {})
  /\ head = [branch |-> MAIN_BRANCH, commit |-> 2]
  /\ index = SourceTree(HeadSource(FALSE))
  /\ unstaged = FALSE
  /\ start = [head |-> head, branches |-> branches, staged |-> FALSE,
              unstaged |-> FALSE]
  /\ present = { 1, 2, 4, 5 }
  /\ build = [t \in Targets |-> {}]
  /\ outExists = FALSE /\ out = EmptyOut /\ outFiles = {} /\ diffTxt = FALSE
  /\ sdkRoot = {}
  /\ botMessage = << >> /\ botFile = << >>
  /\ crates = {} /\ checked = {} /\ failures = << >>
  /\ cmds = << >> /\ steps = << >>

\* the call: results receives what it returns, botMessage the message of the
\* exception it raises, which nobody catches (status 1)
CallRun ==
  /\ script \in ProcessRunners /\ pc = "call"
  /\ LET r == IF script = "run"
                THEN run(argv[1], argv[2], argv[3], argv[4], argv[5])
                ELSE get_cmd_output(argv[1], argv[2], argv[3], argv[4], argv[5])
     IN /\ results' = (IF r.raised THEN << >> ELSE << r.value >>)
        /\ botMessage' = r.error
        /\ exit' = (IF r.raised THEN 1 ELSE 0)
  /\ cmds' = Append(cmds, Cmd(argv[1], ""))
  /\ pc' = "done"
  /\ UNCHANGED << inVars, ret, gi, genRev, usage, chdir, headSha, gitVars, fsVars,
                  botFile, scVars, steps >>

RunSpec == RunInit /\ [][CallRun]_vars

\* ------------------------------- two semver-checks runs in one working tree
\* Two runs of semver-checks with the same arguments work in the same
\* repository and working tree, each through its two calls of
\* checkout_commit_and_generate and `git checkout current`; the commands of
\* the two interleave freely.  pc, ret, gi, genRev and exit hold one value per
\* run; the repository and the working tree are shared.  The command log is
\* not kept here.
Runs == { 1, 2 }
ConcPcs == { "co_cur", "co_base_sc", "co_current" }

ConcInit ==
  /\ script = "sc" /\ argv = << ".", SHA_BASE >>
  /\ docker = FALSE /\ skipGen = FALSE /\ targetsArg = { target_aws_sdk }
  /\ pc = [p \in Runs |-> "co_cur"] /\ ret = [p \in Runs |-> ""]
  /\ gi = [p \in Runs |-> 0] /\ genRev = [p \in Runs |-> ""]
  /\ exit = [p \in Runs |-> -1]
  /\ usage = FALSE /\ chdir = TRUE /\ headSha = SHA_HEAD
  /\ commits = InitialCommits("sc", FALSE)
  /\ \E pre \in SUBSET TempBranches("sc") :
       branches = InitialBranches("sc", MAIN_BRANCH, pre)
  /\ head = [branch |-> MAIN_BRANCH, commit |-> 2]
  /\ index = SourceTree(HeadSource(FALSE))
  /\ unstaged = FALSE
  /\ start = [head |-> head, branches |-> branches, staged |-> FALSE,
              unstaged |-> FALSE]
  /\ present = { 1, 2, 4, 5 }
  /\ build = [t \in Targets |-> {}]
  /\ outExists = FALSE /\ out = EmptyOut /\ outFiles = {} /\ diffTxt = FALSE
  /\ sdkRoot = {}
  /\ results = << >> /\ botMessage = << >> /\ botFile = << >>
  /\ crates = {} /\ checked = {} /\ failures = << >>
  /\ cmds = << >> /\ steps = << >>

\* run p issues its `git checkout`
ConcCheckout(p) ==
  /\ pc[p] \in ConcPcs
  /\ LET c == CheckoutSpec(pc[p])
         k == CheckoutTarget(c)
     IN /\ k # 0
        /\ head' = [branch |-> IF c.mode = "branch" THEN c.rev ELSE c.branch, commit |-> k]
        /\ branches' = (IF c.mode \in { "-b", "-B" }
                          THEN [branches EXCEPT ![c.branch] = k] ELSE branches)
        /\ index' = SwitchIndex(k)
        /\ sdkRoot' = SwitchFiles(sdkRoot, Tree(head.commit).sdk, Tree(k).sdk)
        /\ IF c.gen # ""
             THEN /\ pc' = [pc EXCEPT ![p] = "gen"] /\ ret' = [ret EXCEPT ![p] = c.next]
                  /\ gi' = [gi EXCEPT ![p] = 1] /\ genRev' = [genRev EXCEPT ![p] = c.gen]
                  /\ exit' = exit
             ELSE /\ pc' = [pc EXCEPT ![p] = "done"] /\ exit' = [exit EXCEPT ![p] = 0]
                  /\ UNCHANGED << ret, gi, genRev >>
  /\ UNCHANGED << inVars, usage, chdir, headSha, commits, present, unstaged, build,
                  outExists, out, outFiles, diffTxt, repVars, scVars, cmds, steps >>

\* run p issues the next command of its generation, and the command succeeds
ConcGenStep(p) ==
  /\ pc[p] = "gen" /\ gi[p] \in 1..Len(ScGenCmds)
  /\ LET c == ScGenCmds[gi[p]] IN
       /\ ~MustFail(c)
       /\ \E n \in (IF c.cmd = "gradlew assemble" THEN 0..MaxNonce ELSE { 0 }) :
            build' = BuildAfter(c, n)
       /\ sdkRoot' = SdkRootAfter(c)
       /\ index' = IndexAfter(c)
       /\ commits' = CommitsAfter(c, genRev[p])
       /\ present' = PresentAfter(c)
       /\ branches' = BranchesAfter(c)
       /\ head' = HeadAfter(c)
       /\ IF gi[p] = Len(ScGenCmds)
            THEN pc' = [pc EXCEPT ![p] = ret[p]] /\ gi' = [gi EXCEPT ![p] = 0]
            ELSE pc' = pc /\ gi' = [gi EXCEPT ![p] = gi[p] + 1]
  /\ UNCHANGED << inVars, ret, genRev, exit, usage, chdir, headSha, unstaged,
                  outExists, out, outFiles, diffTxt, repVars, scVars, cmds, steps >>

\* run p issues a command that cannot succeed in the state the other run has
\* left: get_cmd_output or run raises and the run ends with status 1
ConcFail(p) ==
  /\ \/ pc[p] \in ConcPcs /\ CheckoutTarget(CheckoutSpec(pc[p])) = 0
     \/ pc[p] = "gen" /\ gi[p] \in 1..Len(ScGenCmds) /\ MustFail(ScGenCmds[gi[p]])
  /\ pc' = [pc EXCEPT ![p] = "done"] /\ exit' = [exit EXCEPT ![p] = 1]
  /\ UNCHANGED << inVars, ret, gi, genRev, usage, chdir, headSha, gitVars, fsVars,
                  repVars, scVars, cmds, steps >>

ConcNext == \E p \in Runs : ConcCheckout(p) \/ ConcGenStep(p) \/ ConcFail(p)

ConcSpec == ConcInit /\ [][ConcNext]_vars

\* ----------------------- two codegen-diff-revisions runs in one working tree
\* Two runs of codegen-diff-revisions with the same arguments work in the same
\* repository and working tree; their commands interleave freely.  pc, ret,
\* gi, genRev, exit, headSha and the command log hold one value per run; the
\* repository and the working tree are shared.  The ten make_diff calls and
\* write_to_file, which read committed trees only, are one step.
ParCheckoutSpec(p) ==
  CASE pc[p] = "co_head" ->
         CoSpec(headSha[p], HEAD_BRANCH_NAME, "-b", "CheckoutHead", headSha[p], "co_base")
    [] pc[p] = "co_base" ->
         CoSpec(BaseArg, BASE_BRANCH_NAME, "-b", "CheckoutBase", BaseArg, "diffs")
    [] OTHER -> CheckoutSpec("cleanup")

ParCheckoutPcs == { "co_head", "co_base", "cleanup" }

ParInit ==
  /\ script = "cdr" /\ argv = << ".", SHA_BASE >>
  /\ docker \in BOOLEAN /\ skipGen = FALSE /\ targetsArg = {}
  /\ pc = [p \in Runs |-> "revparse"] /\ ret = [p \in Runs |-> ""]
  /\ gi = [p \in Runs |-> 0] /\ genRev = [p \in Runs |-> ""]
  /\ exit = [p \in Runs |-> -1] /\ headSha = [p \in Runs |-> ""]
  /\ usage = FALSE /\ chdir = TRUE
  /\ commits = InitialCommits("cdr", FALSE)
  /\ \E pre \in SUBSET TempBranches("cdr") :
       branches = InitialBranches("cdr", MAIN_BRANCH, pre)
  /\ head = [branch |-> MAIN_BRANCH, commit |-> 2]
  /\ index = SourceTree(HeadSource(FALSE))
  /\ unstaged = FALSE
  /\ start = [head |-> head, branches |-> branches, staged |-> FALSE,
              unstaged |-> FALSE]
  /\ present = { 1, 2, 4, 5 }
  /\ build = [t \in Targets |-> {}]
  /\ outExists = FALSE /\ out = EmptyOut /\ outFiles = {} /\ diffTxt = FALSE
  /\ sdkRoot = {}
  /\ results = << >> /\ botMessage = << >> /\ botFile = << >>
  /\ crates = {} /\ checked = {} /\ failures = << >>
  /\ cmds = [p \in Runs |-> << >>] /\ steps = << >>

\* run p: get_cmd_output("git rev-parse HEAD")
ParRevParse(p) ==
  /\ pc[p] = "revparse"
  /\ cmds' = [cmds EXCEPT ![p] = Append(@, Cmd("git rev-parse", "HEAD"))]
  /\ headSha' = [headSha EXCEPT ![p] = RevParseHead]
  /\ pc' = [pc EXCEPT ![p] = "cleancheck"]
  /\ UNCHANGED << inVars, ret, gi, genRev, exit, usage, chdir, gitVars, fsVars,
                  repVars, scVars, steps >>

\* run p: `if get_cmd_status("git diff --quiet") != 0: sys.exit(1)`
ParCleanCheck(p) ==
  /\ pc[p] = "cleancheck"
  /\ cmds' = [cmds EXCEPT ![p] = Append(@, Cmd("git diff --quiet", ""))]
  /\ IF TreeIsClean
       THEN pc' = [pc EXCEPT ![p] = Goto("fetch")] /\ exit' = exit
       ELSE pc' = [pc EXCEPT ![p] = "done"] /\ exit' = [exit EXCEPT ![p] = 1]
  /\ UNCHANGED << inVars, ret, gi, genRev, usage, chdir, headSha, gitVars, fsVars,
                  repVars, scVars, steps >>

\* run p: the fetch of an automated run
ParFetch(p) ==
  /\ pc[p] = "fetch"
  /\ cmds' = [cmds EXCEPT ![p] = Append(@, Cmd("git fetch", BaseArg))]
  /\ pc' = [pc EXCEPT ![p] = FetchSpec("fetch").next]
  /\ UNCHANGED << inVars, ret, gi, genRev, exit, usage, chdir, headSha, gitVars,
                  fsVars, repVars, scVars, steps >>

\* run p issues its `git checkout`, and git accepts it
ParCheckout(p) ==
  /\ pc[p] \in ParCheckoutPcs
  /\ LET c == ParCheckoutSpec(p)
         k == CheckoutTarget(c)
     IN /\ k # 0
        /\ cmds' = [cmds EXCEPT ![p] = Append(@, CheckoutCmd(c))]
        /\ head' = [branch |-> IF c.mode = "branch" THEN c.rev ELSE c.branch, commit |-> k]
        /\ branches' = (IF c.mode \in { "-b", "-B" }
                          THEN [branches EXCEPT ![c.branch] = k] ELSE branches)
        /\ index' = SwitchIndex(k)
        /\ out' = SwitchOut(k)
        /\ outExists' = SwitchOutExists(k)
        /\ outFiles' = (outFiles \ Tree(head.commit).extra) \cup Tree(k).extra
        /\ IF c.gen # ""
             THEN /\ pc' = [pc EXCEPT ![p] = "gen"] /\ ret' = [ret EXCEPT ![p] = c.next]
                  /\ gi' = [gi EXCEPT ![p] = 1] /\ genRev' = [genRev EXCEPT ![p] = c.gen]
             ELSE /\ pc' = [pc EXCEPT ![p] = c.next]
                  /\ UNCHANGED << ret, gi, genRev >>
  /\ UNCHANGED << inVars, exit, usage, chdir, headSha, commits, present, unstaged,
                  build, sdkRoot, diffTxt, repVars, scVars, steps >>

\* run p issues the next command of its generation, and the command succeeds
ParGenStep(p) ==
  /\ pc[p] = "gen" /\ gi[p] \in 1..Len(GenList)
  /\ LET c == GenList[gi[p]] IN
       /\ ~MustFail(c)
       /\ cmds' = [cmds EXCEPT ![p] = Append(@, c)]
       /\ \E n \in (IF c.cmd = "gradlew assemble" THEN 0..MaxNonce ELSE { 0 }) :
            build' = BuildAfter(c, n)
       /\ out' = OutAfter(c)
       /\ outExists' = OutExistsAfter(c)
       /\ outFiles' = OutFilesAfter(c)
       /\ index' = IndexAfter(c)
       /\ commits' = CommitsAfter(c, genRev[p])
       /\ present' = PresentAfter(c)
       /\ branches' = BranchesAfter(c)
       /\ head' = HeadAfter(c)
       /\ IF gi[p] = Len(GenList)
            THEN pc' = [pc EXCEPT ![p] = ret[p]] /\ gi' = [gi EXCEPT ![p] = 0]
            ELSE pc' = pc /\ gi' = [gi EXCEPT ![p] = gi[p] + 1]
  /\ UNCHANGED << inVars, ret, genRev, exit, usage, chdir, headSha, unstaged, sdkRoot,
                  diffTxt, repVars, scVars, steps >>

\* run p: make_diffs and write_to_file
ParReport(p) ==
  /\ pc[p] = "diffs"
  /\ \A i \in 1..Len(DiffCalls) : DiffStatus(DiffCalls[i]) \in { 0, 1 }
  /\ LET res == [i \in 1..Len(DiffCalls) |->
                   IF DiffStatus(DiffCalls[i]) = 0 THEN None
                   ELSE Loc(BaseArg, headSha[p], DiffCalls[i].suffix)]
         pages == { OutPath(BaseArg, headSha[p], DiffCalls[i].suffix) :
                      i \in { j \in 1..Len(DiffCalls) : res[j] # None } }
     IN /\ results' = res
        /\ cmds' = [cmds EXCEPT ![p] = Append(@, Cmd("git diff --quiet", "make_diffs"))]
        /\ outFiles' = outFiles \cup pages \cup { BotMessagePath }
        /\ diffTxt' = (diffTxt \/ pages # {})
        /\ botMessage' = MakeDiffsMessage(res)
        /\ botFile' = WriteToFile(MakeDiffsMessage(res), LINE_FEED)
  /\ IF AfterReport = "end"
       THEN pc' = [pc EXCEPT ![p] = "done"] /\ exit' = [exit EXCEPT ![p] = 0]
       ELSE pc' = [pc EXCEPT ![p] = AfterReport] /\ exit' = exit
  /\ UNCHANGED << inVars, ret, gi, genRev, usage, chdir, headSha, gitVars, build,
                  outExists, out, sdkRoot, scVars, steps >>

\* run p: `git branch -D` of the base branch, then of the head branch
ParDelete(p) ==
  /\ pc[p] \in DeletePcs
  /\ branches[DeleteSpec(pc[p]).branch] # 0
  /\ head.branch # DeleteSpec(pc[p]).branch
  /\ cmds' = [cmds EXCEPT ![p] = Append(@, Cmd("git branch -D", DeleteSpec(pc[p]).branch))]
  /\ branches' = [branches EXCEPT ![DeleteSpec(pc[p]).branch] = 0]
  /\ IF DeleteSpec(pc[p]).next = "end"
       THEN pc' = [pc EXCEPT ![p] = "done"] /\ exit' = [exit EXCEPT ![p] = 0]
       ELSE pc' = [pc EXCEPT ![p] = DeleteSpec(pc[p]).next] /\ exit' = exit
  /\ UNCHANGED << inVars, ret, gi, genRev, usage, chdir, headSha, commits, present,
                  head, index, unstaged, fsVars, repVars, scVars, steps >>

\* the command run p issues next, when it is a checkout, a command of the
\* generation or a branch deletion
ParNextCmd(p) ==
  CASE pc[p] \in ParCheckoutPcs -> CheckoutCmd(ParCheckoutSpec(p))
    [] pc[p] = "gen" -> GenList[gi[p]]
    [] OTHER -> Cmd("git branch -D", DeleteSpec(pc[p]).branch)

\* run p issues a command that exits non-zero: a checkout git refuses, a
\* deletion of a branch that is missing or checked out, or any command of the
\* generation; run() raises and the run ends with status 1
ParFail(p) ==
  /\ \/ pc[p] \in ParCheckoutPcs /\ CheckoutTarget(ParCheckoutSpec(p)) = 0
     \/ pc[p] = "gen" /\ gi[p] \in 1..Len(GenList)
     \/ /\ pc[p] \in DeletePcs
        /\ \/ branches[DeleteSpec(pc[p]).branch] = 0
           \/ head.branch = DeleteSpec(pc[p]).branch
  /\ cmds' = [cmds EXCEPT ![p] = Append(@, ParNextCmd(p))]
  /\ pc' = [pc EXCEPT ![p] = "done"] /\ exit' = [exit EXCEPT ![p] = 1]
  /\ UNCHANGED << inVars, ret, gi, genRev, usage, chdir, headSha, gitVars, fsVars,
                  repVars, scVars, steps >>

ParNext ==
  \E p \in Runs :
    \/ ParRevParse(p) \/ ParCleanCheck(p) \/ ParFetch(p) \/ ParCheckout(p)
    \/ ParGenStep(p) \/ ParReport(p) \/ ParDelete(p) \/ ParFail(p)

ParSpec == ParInit /\ [][ParNext]_vars

\* ==================================================================== claims
\* the metadata the exclusion step is meant to remove
IntendedMetadata(name) ==
  name \in { "smithy-build-info.json", "model.json", "sources/manifest" }

\* the commands that change the repository or the working tree
MutatingCmds ==
  { "git checkout -b", "git checkout -B", "git checkout", "git fetch", "git add -f",
    "git commit", "git rm -r", "git branch -D", "gradlew clean", "gradlew assemble",
    "gradlew stubs", "rm -rf", "mkdir", "mv", "rm -f", "rm -rf source",
    "find|grep|xargs rm -f", "mkdir -p", "git diff --output", "difftags" }

Issued(name) == \E i \in 1..Len(cmds) : cmds[i].cmd = name
IssuedFor(name, arg) == \E i \in 1..Len(cmds) : cmds[i] = Cmd(name, arg)
NoMutatingCmd == \A i \in 1..Len(cmds) : cmds[i].cmd \notin MutatingCmds

\* the commits of the object store before the run
NumInitialCommits == Len(InitialCommits(script, FALSE))

\* commit k is a generated-code commit for revision_sha rev on top of parent
GeneratedOn(k, rev, parent) ==
  /\ k > NumInitialCommits
  /\ commits[k].author = COMMIT_AUTHOR_NAME
  /\ commits[k].msg = rev
  /\ commits[k].parent = parent

\* what a revision argument denoted when the run started
StartResolve(rev) ==
  CASE rev = SHA_BASE -> 1
    [] rev = SHA_HEAD -> 2
    [] rev = SHA_REMOTE -> 3
    [] rev = "HEAD" -> start.head.commit
    [] OTHER -> 0

\* C1: codegen-diff-revisions started with a tracked file modified and
\* unstaged issues no mutating command (no checkout -b, fetch, build, commit),
\* creates no branch and no commit, and when it has ended its status is
\* non-zero.
C1_DirtyTreeAborts ==
  (script = "cdr" /\ start.unstaged) =>
    /\ NoMutatingCmd
    /\ branches = start.branches
    /\ Len(commits) = NumInitialCommits
    /\ (pc = "done" => exit # 0)

C1_Witness ==
  /\ script = "cdr" /\ start.unstaged /\ Len(argv) = 2
  /\ pc = "done" /\ exit = 1 /\ Issued("git diff --quiet")

\* C2 (as claimed): codegen-diff-revisions and semver-checks started in a tree
\* that differs from HEAD, by unstaged or by staged changes, issue no mutating
\* command.
C2_RejectsUncommitted ==
  (script \in { "cdr", "sc" } /\ (start.unstaged \/ start.staged)) => NoMutatingCmd

\* the run reports a usage error and has touched nothing
UsageErrorOnly ==
  /\ ~chdir /\ cmds = << >>
  /\ pc = "done" => usage /\ exit # 0

FirstAt(c) ==
  IF \E i \in 1..Len(cmds) : cmds[i] = c
    THEN CHOOSE i \in 1..Len(cmds) : cmds[i] = c /\ \A j \in 1..(i - 1) : cmds[j] # c
    ELSE 0

\* C4: a successful codegen-diff-revisions run enters each step once, in the
\* order ValidateCleanTree, CheckoutHead, BuildHead, CheckoutBase, BuildBase,
\* ComputeDiffs, WriteReport, then Cleanup or LeaveBranches; and whenever the
\* checkout that creates the base branch has been issued, a generated-code
\* commit was recorded after the head branch was created and before it, and
\* the head branch (while it exists) points to the generated commit for the
\* head revision on top of the commit that was HEAD.
C4_StepOrder ==
  /\ (script = "cdr" /\ pc = "done" /\ exit = 0) =>
       steps = << "ValidateCleanTree", "CheckoutHead", "BuildHead", "CheckoutBase",
                  "BuildBase", "ComputeDiffs", "WriteReport",
                  IF docker THEN "LeaveBranches" ELSE "Cleanup" >>
  /\ (script = "cdr" /\ IssuedFor("git checkout -b", BASE_BRANCH_NAME)) =>
       /\ \E j \in 1..Len(cmds) :
            /\ cmds[j].cmd = "git commit"
            /\ FirstAt(Cmd("git checkout -b", HEAD_BRANCH_NAME)) < j
            /\ j < FirstAt(Cmd("git checkout -b", BASE_BRANCH_NAME))
       /\ branches[HEAD_BRANCH_NAME] # 0 =>
            GeneratedOn(branches[HEAD_BRANCH_NAME], headSha, start.head.commit)

C4_Witness ==
  /\ script = "cdr" /\ pc = "done" /\ exit = 0 /\ docker
  /\ GeneratedOn(branches[HEAD_BRANCH_NAME], headSha, start.head.commit)
  /\ branches[BASE_BRANCH_NAME] > branches[HEAD_BRANCH_NAME]

\* the run ended in a generation, at a failing build step
BuildStepCmds == { "gradlew clean", "gradlew assemble", "gradlew stubs", "mv" }
BuildStepFailed ==
  /\ pc = "done" /\ gi >= 1
  /\ GenList[gi].cmd \in BuildStepCmds

\* C5: when a build step (clean, assemble, stub sub-build, relocation) fails
\* while codegen-diff-revisions builds the head or the base revision, the run
\* exits non-zero, no generated-code commit exists for the revision being
\* built, ComputeDiffs is not entered and bot-message is not written.
C5_BuildFailureIsFatal ==
  (script = "cdr" /\ BuildStepFailed) =>
    /\ exit # 0
    /\ Len(commits) = NumInitialCommits + (IF ret = "co_base" THEN 0 ELSE 1)
    /\ head.commit <= NumInitialCommits \/ commits[head.commit].msg = headSha
    /\ ~Issued("git commit") \/ ret = "diffs"
    /\ "ComputeDiffs" \notin { steps[i] : i \in 1..Len(steps) }
    /\ results = << >> /\ botMessage = << >>

C5_Witness ==
  /\ script = "cdr" /\ BuildStepFailed /\ ret = "diffs"
  /\ GenList[gi].cmd = "mv" /\ exit = 1

\* C6 (as claimed): when ComputeDiffs starts, the head branch is exactly one
\* generated commit ahead of the head revision, the base branch exactly one
\* generated commit ahead of the base revision, and neither branch carries the
\* other revision's generated commit.
C6_OneCommitAhead ==
  (script = "cdr" /\ pc = "diffs") =>
    LET h == branches[HEAD_BRANCH_NAME]
        b == branches[BASE_BRANCH_NAME]
    IN /\ GeneratedOn(h, headSha, start.head.commit)
       /\ GeneratedOn(b, BaseArg, StartResolve(BaseArg))
       /\ commits[b].parent # h /\ commits[h].parent # b

\* C7: a successful local run ends on main with both temporary branches
\* deleted; a successful automated run keeps both branches on their generated
\* commits and issues no checkout of main; clean-up commands are issued only
\* after the report was written.
C7_CleanupOrLeave ==
  /\ (script = "cdr" /\ pc = "done" /\ exit = 0 /\ ~docker) =>
       /\ head.branch = MAIN_BRANCH
       /\ branches[HEAD_BRANCH_NAME] = 0 /\ branches[BASE_BRANCH_NAME] = 0
  /\ (script = "cdr" /\ pc = "done" /\ exit = 0 /\ docker) =>
       /\ branches[HEAD_BRANCH_NAME] > NumInitialCommits
       /\ branches[BASE_BRANCH_NAME] > NumInitialCommits
       /\ commits[branches[HEAD_BRANCH_NAME]].author = COMMIT_AUTHOR_NAME
       /\ commits[branches[BASE_BRANCH_NAME]].author = COMMIT_AUTHOR_NAME
       /\ commits[branches[HEAD_BRANCH_NAME]].msg = headSha
       /\ commits[branches[BASE_BRANCH_NAME]].msg = BaseArg
       /\ ~IssuedFor("git checkout", MAIN_BRANCH) /\ ~Issued("git branch -D")
  /\ (script = "cdr" /\ (IssuedFor("git checkout", MAIN_BRANCH) \/ Issued("git branch -D")))
       => botMessage # << >> /\ BotMessagePath \in outFiles

C7_Witness ==
  /\ script = "cdr" /\ pc = "done" /\ exit = 0 /\ ~docker
  /\ start.head.branch = FEATURE_BRANCH /\ Issued("git branch -D")

\* C8 (as claimed): the checkout that creates a temporary branch of
\* codegen-diff-revisions is not refused because the branch exists: whenever
\* its revision resolves, it has a commit to move to.
C8_BranchOverwritten ==
  (script = "cdr" /\ pc \in { "co_head", "co_base" }
     /\ Resolve(CheckoutSpec(pc).rev) # 0)
    => CheckoutTarget(CheckoutSpec(pc)) # 0

\* C9 (as claimed): two generations from the same revision with the same
\* target set, the working tree holding no local change, commit identical
\* trees below OUTPUT_PATH.
C9_SameTreeTwice ==
  (script = "gen" /\ pc = "end") =>
    Tree(branches[ONCE_BRANCH]).out = Tree(branches[TWICE_BRANCH]).out

\* both branches exist and their trees differ
OnceTwiceDiffer ==
  /\ branches[ONCE_BRANCH] # 0 /\ branches[TWICE_BRANCH] # 0
  /\ Tree(branches[ONCE_BRANCH]) # Tree(branches[TWICE_BRANCH])

\* check-deterministic-codegen has issued its final diff
FinalDiffIssued == script = "cdc" /\ Issued("git diff --exit-code")

\* C10 (as claimed): check-deterministic-codegen, given its repository root,
\* exits non-zero if and only if the trees of once and twice differ.
C10_NonZeroIffDiffer ==
  (script = "cdc" /\ Len(argv) = 1 /\ pc = "done") => (exit # 0 <=> OnceTwiceDiffer)

\* C10 (amended): when the final diff is reached, once and twice are each one
\* generated commit ahead of the commit that was HEAD; the second generation
\* runs only after the first commit exists; the script exits 0 only if the
\* trees are identical and, having reached the final diff with differing
\* trees, exits non-zero.  (A failing earlier command also exits non-zero.)
C10_TwiceFromSameCommit ==
  /\ (script = "cdc" /\ (pc \in { "final_diff", "end" } \/ FinalDiffIssued)) =>
       /\ GeneratedOn(branches[ONCE_BRANCH], headSha, start.head.commit)
       /\ GeneratedOn(branches[TWICE_BRANCH], headSha, start.head.commit)
       /\ branches[ONCE_BRANCH] # branches[TWICE_BRANCH]
       /\ headSha = SHA_HEAD
  /\ (script = "cdc" /\ pc = "gen" /\ ret = "final_diff") =>
       GeneratedOn(branches[ONCE_BRANCH], headSha, start.head.commit)
  /\ (script = "cdc" /\ pc = "done" /\ exit = 0) => ~OnceTwiceDiffer /\ FinalDiffIssued
  /\ (script = "cdc" /\ pc = "done" /\ FinalDiffIssued /\ OnceTwiceDiffer) => exit # 0

C10_Witness ==
  /\ script = "cdc" /\ pc = "done" /\ FinalDiffIssued /\ OnceTwiceDiffer /\ exit = 1
  /\ GeneratedOn(branches[TWICE_BRANCH], headSha, start.head.commit)

\* the generated-code commits the run has recorded
GeneratedCommits ==
  { k \in (NumInitialCommits + 1)..Len(commits) : commits[k].author = COMMIT_AUTHOR_NAME }

\* C11 (as claimed): no artifact tree that generate_and_commit_generated_code
\* commits holds, below the subdirectory of any target (the SDK's included), a
\* file named smithy-build-info.json, sources/manifest or model.json.
C11_NoMetadataCommitted ==
  script \in { "cdr", "cdc", "gen" } =>
    \A k \in GeneratedCommits : \A s \in Subdirs : \A f \in Tree(k).out[s] :
      ~IntendedMetadata(f.name)

\* the base argument named, at start, the commit that was HEAD
SameRevision == StartResolve(BaseArg) = start.head.commit

\* the stamps of the build-info files a committed artifact tree holds
Stamps(k) ==
  { f.n : f \in { g \in UNION { Tree(k).out[d] : d \in Subdirs } :
                    g.name = "smithy-build-info.json" } }

\* the builds of the head and of the base branch left the same stamps
SameStamps ==
  Stamps(branches[HEAD_BRANCH_NAME]) = Stamps(branches[BASE_BRANCH_NAME])

\* all make_diff calls were made and both branches are still there
DiffsComputed ==
  /\ script = "cdr" /\ Len(results) = Len(DiffCalls)
  /\ branches[HEAD_BRANCH_NAME] # 0 /\ branches[BASE_BRANCH_NAME] # 0

\* the first position at or after i where text holds the escaped newline
RECURSIVE LineEnd(_, _)
LineEnd(text, i) ==
  IF i > Len(text) \/ text[i] = ESCAPED_NEWLINE THEN i ELSE LineEnd(text, i + 1)

\* the lines of a text, as its reader splits it at the escaped newlines
RECURSIVE Lines(_)
Lines(text) ==
  IF text = << >> THEN << >>
  ELSE << SubSeq(text, 1, LineEnd(text, 1) - 1) >>
         \o Lines(SubSeq(text, LineEnd(text, 1) + 1, Len(text)))

\* the title of category i
Category(i) == DiffCalls[2 * i - 1].title

\* bullet i of the written message is the empty-state text of its category
EmptyBullet(i) == Lines(botMessage)[i + 1] = << "- ", EmptyText(Category(i)) >>

\* C12 (as claimed): when the base revision is the head revision and the two
\* builds are deterministic, each of the ten make_diff calls returns None and
\* the written report holds the 'No codegen difference' text for all five
\* categories.
C12_SameRevisionNoDifference ==
  (DiffsComputed /\ SameRevision /\ SameStamps) =>
    /\ \A i \in 1..Len(results) : results[i] = None
    /\ botMessage # << >> => \A i \in 1..5 : EmptyBullet(i)

\* the content of a file apart from its whitespace layout
Unspaced(f) == << f.name, f.code, f.mods, f.n >>

\* the committed files below subdirectory sub are the same on the base and on
\* the head branch: byte for byte (whitespace), or up to whitespace
SameFiles(sub, whitespace) ==
  LET b == Tree(branches[BASE_BRANCH_NAME]).out[sub]
      h == Tree(branches[HEAD_BRANCH_NAME]).out[sub]
  IN IF whitespace THEN b = h
     ELSE { Unspaced(f) : f \in b } = { Unspaced(f) : f \in h }

\* C13: each make_diff call of a run returns None exactly when the files of
\* its path are the same on the base and the head branch under its whitespace
\* policy (whitespace ignored exactly when whitespace is false).  Returning
\* None it issues only the `git diff --quiet` probe and creates nothing below
\* OUTPUT_PATH; otherwise it creates <base>/<head>/<suffix> below OUTPUT_PATH,
\* runs the renderer and returns <base>/<head>/<suffix>/index.html.
C13_MakeDiffResult ==
  [][(pc = "diffs" /\ Len(results') = Len(results) + 1) =>
       LET d == DiffCalls[Len(results) + 1]
           r == results'[Len(results')]
           probe == Cmd("git diff --quiet", d.suffix)
       IN /\ r = None <=> SameFiles(d.sub, d.ws)
          /\ r = None => /\ cmds' = Append(cmds, probe)
                         /\ outFiles' = outFiles /\ outExists' = outExists
          /\ r # None => /\ r = Loc(BaseArg, headSha, d.suffix)
                         /\ OutPath(BaseArg, headSha, d.suffix) \in outFiles'
                         /\ cmds' = cmds \o << probe, Cmd("mkdir -p", d.suffix),
                                               Cmd("git diff --output", d.suffix),
                                               Cmd("difftags", d.suffix) >>]_vars

\* a whitespace-only change: the first call returned a page, the second None
C13_Witness ==
  /\ script = "cdr" /\ Len(results) >= 2
  /\ results[1] = Loc(BaseArg, headSha, "aws-sdk") /\ results[2] = None
  /\ OutPath(BaseArg, headSha, "aws-sdk") \in outFiles
  /\ OutPath(BaseArg, headSha, "aws-sdk-ignore-whitespace") \notin outFiles

\* the text of a link: [text](CDN_URL/codegen-diff/<location>), the location
\* being the path make_diff returned, or the word None
ExpectedLink(text, loc) ==
  << "[", text, "](", "https://d2luzm2xt3nokh.cloudfront.net", "/codegen-diff/" >>
    \o (IF loc = None THEN << "None" >>
        ELSE << loc.base, "/", loc.head, "/", loc.suffix, "/index.html" >>)
    \o << ")" >>

\* C14: diff_link returns the empty-state text unmodified whenever the primary
\* location is None, whatever the alternate location is; otherwise it returns
\* exactly two links, the primary text linked to
\* CDN_URL/codegen-diff/<primary location>, then in parentheses the alternate
\* text linked to CDN_URL/codegen-diff/<alternate location>.
C14_DiffLink ==
  (script = "diff_link" /\ pc = "done") =>
    /\ results[1] = None => botMessage = << argv[2] >>
    /\ results[1] # None =>
         botMessage = ExpectedLink(argv[1], results[1]) \o << " (" >>
                        \o ExpectedLink(argv[3], results[2]) \o << ")" >>

\* the primary location is None and the alternate one is a page
C14_Witness ==
  /\ script = "diff_link" /\ pc = "done"
  /\ results[1] = None /\ results[2] # None
  /\ botMessage = << argv[2] >>

\* the `git diff --quiet` probes of the make_diff calls, in the order issued
IsProbe(c) == c.cmd = "git diff --quiet" /\ c.arg # ""
Probes == SelectSeq(cmds, IsProbe)

\* the five categories, each evaluated with and then without whitespace
TenCalls ==
  << << "AWS SDK", TRUE >>, << "AWS SDK", FALSE >>,
     << "Client Test", TRUE >>, << "Client Test", FALSE >>,
     << "Server Test", TRUE >>, << "Server Test", FALSE >>,
     << "Server Test Python", TRUE >>, << "Server Test Python", FALSE >>,
     << "Server Test Typescript", TRUE >>, << "Server Test Typescript", FALSE >> >>

FiveTitles ==
  << "AWS SDK", "Client Test", "Server Test", "Server Test Python",
     "Server Test Typescript" >>

\* the call a probe belongs to
CallOf(c) == CHOOSE d \in { DiffCalls[i] : i \in 1..Len(DiffCalls) } : d.suffix = c.arg

\* the make_diff calls made so far are the first ones of the ten
CallsInOrder ==
  /\ Len(Probes) <= Len(TenCalls)
  /\ \A i \in 1..Len(Probes) :
       << CallOf(Probes[i]).title, CallOf(Probes[i]).ws >> = TenCalls[i]

\* line i + 1 of a message is the bullet of the i-th category
BulletOf(line, title) ==
  /\ Len(line) >= 2 /\ line[1] = "- "
  /\ \/ line = << "- ", EmptyText(title) >>
     \/ Len(line) > 3 /\ line[2] = "[" /\ line[3] = title

\* a message is the header followed by the five bullets in the fixed order
HeaderAndFiveBullets(msg) ==
  /\ Len(Lines(msg)) = 6
  /\ Lines(msg)[1] = << "A new generated diff is ready to view." >>
  /\ \A i \in 1..5 : BulletOf(Lines(msg)[i + 1], FiveTitles[i])

\* the run has ended and had entered ComputeDiffs
EndedAfterComputeDiffs ==
  /\ script = "cdr" /\ pc = "done"
  /\ "ComputeDiffs" \in { steps[i] : i \in 1..Len(steps) }

\* C15 (as claimed): every run that reaches ComputeDiffs makes exactly ten
\* make_diff calls, the five categories twice each, and produces a message of
\* the header and five bullets in the fixed order.
C15_AlwaysTenCalls ==
  EndedAfterComputeDiffs =>
    /\ Len(Probes) = 10 /\ CallsInOrder
    /\ HeaderAndFiveBullets(botMessage)

\* C15 (amended): the make_diff calls of a run are the fixed ten in their
\* order (AWS SDK, Client Test, Server Test, Server Test Python, Server Test
\* Typescript, each with and then without whitespace); a run in which no
\* command of a make_diff call fails makes all ten and its message is the
\* header followed by the five bullets in that order, whatever the diff
\* outcomes; a run in which one fails stops there and has no message.
C15_TenCallsUnlessFailed ==
  /\ script = "cdr" => CallsInOrder
  /\ (script = "cdr" /\ botMessage # << >>) =>
       /\ Len(Probes) = 10 /\ Len(results) = 10
       /\ HeaderAndFiveBullets(botMessage)
  /\ (script = "cdr" /\ "WriteReport" \in { steps[i] : i \in 1..Len(steps) }) =>
       Len(Probes) = 10
  /\ (EndedAfterComputeDiffs /\ Len(results) < 10) =>
       /\ exit # 0 /\ botMessage = << >>
       /\ Len(Probes) = Len(results) + 1

\* a message whose first bullet is a link and whose other bullets are not
C15_Witness ==
  /\ script = "cdr" /\ pc = "done" /\ exit = 0 /\ botMessage # << >>
  /\ results[1] # None /\ \A i \in 3..10 : results[i] = None
  /\ Lines(botMessage)[2][2] = "["
  /\ Lines(botMessage)[3] = << "- ", "No codegen difference in the Client Test" >>

\* bullet i of the written message carries links
LinkBullet(i) == Lines(botMessage)[i + 1][2] = "["

\* the page of the i-th make_diff call
PageOf(i) == Loc(BaseArg, headSha, DiffCalls[i].suffix)

\* C16 (as claimed): in every bullet that carries links the primary link
\* targets the whitespace-insensitive page of the category and the alternate
\* labelled 'ignoring whitespace' targets the whitespace-sensitive page.
C16_PrimaryIgnoresWhitespace ==
  (script = "cdr" /\ botMessage # << >>) =>
    \A i \in 1..5 : LinkBullet(i) =>
      /\ ~DiffCalls[2 * i].ws
      /\ Lines(botMessage)[i + 1] =
           << "- " >> \o ExpectedLink(Category(i), PageOf(2 * i)) \o << " (" >>
             \o ExpectedLink("ignoring whitespace", PageOf(2 * i - 1)) \o << ")" >>

\* C16 (amended): in every bullet that carries links the primary link targets
\* the whitespace-sensitive page of the category, and the alternate labelled
\* 'ignoring whitespace' targets what the whitespace-insensitive call
\* returned: its page, or the word None when the change is whitespace only.
C16_AlternateIgnoresWhitespace ==
  (script = "cdr" /\ botMessage # << >>) =>
    \A i \in 1..5 : LinkBullet(i) =>
      /\ DiffCalls[2 * i - 1].ws /\ ~DiffCalls[2 * i].ws
      /\ results[2 * i - 1] = PageOf(2 * i - 1)
      /\ results[2 * i] \in { PageOf(2 * i), None }
      /\ Lines(botMessage)[i + 1] =
           << "- " >> \o ExpectedLink(Category(i), PageOf(2 * i - 1)) \o << " (" >>
             \o ExpectedLink("ignoring whitespace", results[2 * i]) \o << ")" >>

\* a report with a bullet whose two links target the two pages
C16_Witness ==
  /\ script = "cdr" /\ botMessage # << >>
  /\ LinkBullet(3) /\ results[6] = PageOf(6)
  /\ results[5] = PageOf(5) /\ results[2] # results[1]

\* the positions of a text that hold piece x
Positions(text, x) == { i \in 1..Len(text) : text[i] = x }

\* C17: the message make_diffs returns holds no line feed: its line breaks are
\* the two characters backslash and n, one after the header and one after each
\* of the five bullets, the last one ending the message; and what
\* write_to_file leaves in OUTPUT_PATH/bot-message is the message, piece for
\* piece.
C17_EscapedNewlines ==
  (script = "cdr" /\ botMessage # << >>) =>
    /\ Positions(botMessage, "\n") = {} /\ Positions(botMessage, "\r\n") = {}
    /\ Cardinality(Positions(botMessage, "\\n")) = 6
    /\ botMessage[2] = "\\n" /\ botMessage[Len(botMessage)] = "\\n"
    /\ \A i \in Positions(botMessage, "\\n") \ { Len(botMessage) } :
         botMessage[i + 1] = "- "
    /\ \A i \in Positions(botMessage, "- ") : botMessage[i - 1] = "\\n"
    /\ botFile = botMessage
    /\ BotMessagePath \in outFiles

C17_Witness ==
  /\ script = "cdr" /\ pc = "done" /\ exit = 0 /\ docker
  /\ botFile = botMessage /\ Len(botFile) > 12
  /\ Cardinality(Positions(botFile, "\\n")) = 6

\* the names of the committed files below subdirectory sub that differ between
\* the base and the head branch (changed, or present on one side only)
DifferingFiles(sub) ==
  LET b == Tree(branches[BASE_BRANCH_NAME]).out[sub]
      h == Tree(branches[HEAD_BRANCH_NAME]).out[sub]
  IN { f.name : f \in (b \ h) \cup (h \ b) }

\* the committed artifact trees differ in exactly one file, an SDK one
OneSdkFileDiffers ==
  /\ branches[HEAD_BRANCH_NAME] # 0 /\ branches[BASE_BRANCH_NAME] # 0
  /\ Cardinality(DifferingFiles(Subdir(target_aws_sdk))) = 1
  /\ \A sub \in Subdirs \ { Subdir(target_aws_sdk) } : DifferingFiles(sub) = {}

\* C18: when the committed artifact trees of the base and the head branch
\* differ in exactly one file and that file lies under the SDK subtree, the
\* bot-message the run writes has a link line with the AWS SDK page as its
\* first bullet and the 'No codegen difference' text of their category as its
\* four other bullets.
C18_OnlySdkDiffers ==
  (script = "cdr" /\ botMessage # << >> /\ OneSdkFileDiffers) =>
    /\ results[1] # None /\ results[1] = PageOf(1)
    /\ SubSeq(Lines(botMessage)[2], 1, 3) = << "- ", "[", "AWS SDK" >>
    /\ SubSeq(Lines(botMessage)[2], 4, 12) =
         << "](", CDN_URL, "/codegen-diff/", BaseArg, "/", headSha, "/",
            "aws-sdk", "/index.html" >>
    /\ \A i \in 2..5 : EmptyBullet(i)
    /\ botFile = botMessage /\ BotMessagePath \in outFiles

C18_Witness ==
  /\ script = "cdr" /\ pc = "done" /\ exit = 0
  /\ OneSdkFileDiffers /\ LinkBullet(1)
  /\ \A i \in 2..5 : EmptyBullet(i)
  /\ botFile = botMessage /\ botFile # << >>

\* a checkout: the command that starts the work on another revision
IsCheckoutCmd(c) == c.cmd \in { "git checkout -b", "git checkout -B", "git checkout" }

\* no command a step adds to the log was issued before, unless a checkout lies
\* between the two (the same command of the steps of two revisions)
NoRepeat(log, new) ==
  \A j \in (Len(log) + 1)..Len(new) : \A i \in 1..(j - 1) :
    new[i] = new[j] => \E k \in (i + 1)..j : IsCheckoutCmd(new[k])

\* the positions from which a script ends with status 0: the return from
\* main(), the self-test, and the end of the crate loop without a failure
RegularEnd ==
  \/ pc = "end"
  \/ pc = "main" /\ SelfTestMode
  \/ pc = "sc_loop" /\ crates = {} /\ failures = << >>

\* C19: the scripts are fail-fast and retry nothing: no command is issued twice
\* within the step of a revision; a step whose command ends the run ends it
\* with a non-zero status, the command that failed being the last one issued;
\* a run ends with status 0 only from its regular end; and once a run has
\* ended nothing further is issued.
C19_FailFastNoRetry ==
  [][ /\ pc # "done"
      /\ NoRepeat(cmds, cmds')
      /\ (pc' = "done" /\ cmds' # cmds) => exit' # 0
      /\ (pc' = "done" /\ exit' = 0) => RegularEnd
      /\ (pc' = "done" /\ ~RegularEnd /\ pc # "main") => exit' # 0
    ]_vars

\* the base build of codegen-diff-revisions failed at gradle: that command is
\* the last one issued, the status is non-zero and nothing was reported
C19_Witness ==
  /\ script = "cdr" /\ pc = "done" /\ exit # 0
  /\ "BuildBase" \in { steps[i] : i \in 1..Len(steps) }
  /\ cmds[Len(cmds)].cmd = "gradlew assemble"
  /\ Len(SelectSeq(cmds, LAMBDA c : c.cmd = "gradlew assemble")) = 2
  /\ results = << >> /\ botMessage = << >>

\* the crate loop of semver-checks has examined a crate directory
CrateExamined == \E i \in 1..Len(cmds) : cmds[i].cmd = "git cat-file -e"

\* C20 (as claimed): in semver-checks a failed semver check never stops the
\* run: once a crate has failed, every crate directory is still examined
\* before the run ends; and a run that has examined a crate exits non-zero if
\* and only if a checked crate failed.
C20_OnlyFailuresExitNonZero ==
  (script = "sc" /\ pc = "done" /\ CrateExamined) =>
    /\ failures # << >> => crates = {}
    /\ exit # 0 <=> failures # << >>

\* C20 (amended): a crate whose semver check fails does not stop the run: its
\* output is accumulated and the loop goes on; a run that has examined every
\* crate directory ends there, non-zero if and only if a checked crate failed;
\* the loop is left early, with a non-zero status whether or not a crate has
\* failed, exactly when `cargo pkgid` fails for a crate.
C20_AccumulateThenReport ==
  [][ /\ (pc = "sc_loop" /\ failures' # failures) =>
           /\ pc' = "sc_loop" /\ exit' = exit
           /\ Len(failures') = Len(failures) + 1
           /\ SubSeq(failures', 1, Len(failures)) = failures
           /\ failures'[Len(failures')] \in crates \ crates'
           /\ cmds'[Len(cmds')] = Cmd("cargo semver-checks", failures'[Len(failures')])
      /\ (pc = "sc_loop" /\ pc' = "done" /\ crates = {}) =>
           /\ exit' # 0 <=> failures # << >>
           /\ cmds' = cmds /\ failures' = failures
      /\ (pc = "sc_loop" /\ pc' = "done" /\ crates # {}) =>
           /\ exit' # 0
           /\ cmds'[Len(cmds')].cmd = "cargo pkgid"
      /\ (pc = "sc_loop" /\ pc' # "done") => crates' # crates
    ]_vars

\* both crates were examined, the first one failed, and the run ended non-zero
\* after the second
C20_Witness ==
  /\ script = "sc" /\ pc = "done" /\ exit = 1 /\ crates = {}
  /\ Len(failures) = 1 /\ checked = CrateNames
  /\ cmds[Len(cmds)] \notin { Cmd("cargo semver-checks", failures[1]) }
  /\ cmds[Len(cmds)].cmd = "cargo semver-checks"

\* how often the semver checker was run for crate c
SemverRuns(c) == Len(SelectSeq(cmds, LAMBDA x : x = Cmd("cargo semver-checks", c)))

\* the crate directories of the SDK tree of the `current` branch that are not
\* deny-listed and whose Cargo.toml exists on the `base` branch
Eligible ==
  { c \in CrateNames :
      /\ CargoToml(c) \in Names(Tree(branches[CURRENT_BRANCH]).sdk)
      /\ c \notin DenyList
      /\ branches[BASE_BRANCH] # 0
      /\ CargoToml(c) \in Names(Tree(branches[BASE_BRANCH]).sdk) }

\* the crate loop of semver-checks is running or was entered
InCrateLoop == script = "sc" /\ (pc = "sc_loop" \/ (pc = "done" /\ CrateExamined))

\* the crate loop ran to its end
CrateLoopEnded == script = "sc" /\ pc = "done" /\ crates = {} /\ CrateExamined

SkipWithBranches ==
  /\ script = "sc" /\ skipGen
  /\ start.branches[CURRENT_BRANCH] # 0 /\ start.branches[BASE_BRANCH] # 0

\* the commands of one iteration of the crate loop
CrateCmds == { "git cat-file -e", "cargo pkgid", "cargo semver-checks" }

\* C22: when semver-checks runs with SKIP_GENERATION set and the `current` and
\* `base` branches exist, it never invokes the build system, never fetches
\* (in a docker build either) and never creates, resets or moves a branch or
\* records a commit: after `git rev-parse HEAD` and the clean-tree check its
\* only branch operation is `git checkout current`, and after it only the
\* commands of the crate loop are issued.
C22_SkipGeneration ==
  SkipWithBranches =>
    /\ \A i \in 1..Len(cmds) :
         /\ cmds[i].cmd \notin { "gradlew clean", "gradlew assemble", "gradlew stubs",
                                 "git fetch", "git checkout -b", "git checkout -B",
                                 "git commit", "git branch -D", "mv", "git rm -r",
                                 "git add -f" }
         /\ cmds[i].cmd = "git checkout" => cmds[i] = Cmd("git checkout", CURRENT_BRANCH)
         /\ i = 3 => cmds[i] = Cmd("git checkout", CURRENT_BRANCH)
         /\ i > 3 => cmds[i].cmd \in CrateCmds
    /\ Len(cmds) >= 1 => cmds[1] = Cmd("git rev-parse", "HEAD")
    /\ Len(cmds) >= 2 => cmds[2] = Cmd("git diff --quiet", "")
    /\ branches = start.branches
    /\ Len(commits) = NumInitialCommits
    /\ gi = 0 /\ sdkRoot \in { {}, Tree(start.branches[CURRENT_BRANCH]).sdk }
    /\ CrateExamined => head.branch = CURRENT_BRANCH

\* a docker run with SKIP_GENERATION that went through the crate loop
C22_Witness ==
  /\ SkipWithBranches /\ docker /\ CrateLoopEnded /\ checked # {}
  /\ cmds[3] = Cmd("git checkout", CURRENT_BRANCH)
  /\ start.head.branch # CURRENT_BRANCH

\* a text of letters only: no '/', no '#', no '@'
Plain(s) == \A i \in 1..Len(s) : s[i] \in { "a", "b" }

\* id is <url>/<name>#<version> with the '/' at i and the '#' at j, and holds
\* no '@'
IsPathShape(id, i, j) ==
  /\ ~Has(id, "@")
  /\ i < j /\ id[i] = "/" /\ id[j] = "#"
  /\ ~Has(SubSeq(id, 1, i - 1), "#")
  /\ Plain(SubSeq(id, i + 1, j - 1))
  /\ Plain(SubSeq(id, j + 1, Len(id)))

\* id is <url>#<name>@<version> with the '#' at i and the '@' at j
IsNameShape(id, i, j) ==
  /\ i < j /\ id[i] = "#" /\ id[j] = "@"
  /\ ~Has(SubSeq(id, 1, i - 1), "#")
  /\ Plain(SubSeq(id, i + 1, j - 1))
  /\ Plain(SubSeq(id, j + 1, Len(id)))

\* C23: parse_package_id returns <name> for an id <url>/<name>#<version> that
\* holds no '@', returns <name> for an id <url>#<name>@<version>, and raises
\* for an id without '#'.
C23_ParsePackageId ==
  (script = "parse_package_id" /\ pc = "done") =>
    /\ \A i \in 1..Len(argv[1]), j \in 1..Len(argv[1]) :
         (IsPathShape(argv[1], i, j) \/ IsNameShape(argv[1], i, j)) =>
           results = << SubSeq(argv[1], i + 1, j - 1) >> /\ exit = 0
    /\ ~Has(argv[1], "#") => results = << >> /\ exit = 1

\* an id of the second shape whose url has a path
C23_Witness ==
  /\ script = "parse_package_id" /\ pc = "done"
  /\ argv[1] = << "a", "/", "b", "#", "a", "@" >>
  /\ results = << << "a" >> >>

\* a call of run or get_cmd_output has ended
RunEnded == script \in ProcessRunners /\ pc = "done"

\* the error raised carries text piece x
Carries(x) == \E i \in 1..Len(botMessage) : botMessage[i] = x

\* the error raised ends with the pieces of text
EndsWith(text) ==
  /\ Len(botMessage) >= Len(text)
  /\ SubSeq(botMessage, Len(botMessage) - Len(text) + 1, Len(botMessage)) = text

\* C24 (as claimed): a command run with check=true that exits non-zero makes
\* run and get_cmd_output fail with an error that carries the command, the
\* exit code and, for get_cmd_output, the captured stderr; with check=false
\* get_cmd_output returns (status, stdout, stderr) without raising.
C24_ErrorCarriesExitCode ==
  RunEnded =>
    /\ (argv[2] /\ argv[3] # 0) =>
         /\ exit # 0 /\ results = << >>
         /\ Carries(argv[1]) /\ Carries(StatusText(argv[3]))
         /\ script = "get_cmd_output" => EndsWith(Strip(argv[5]))
    /\ (~argv[2] /\ script = "get_cmd_output") =>
         /\ exit = 0 /\ botMessage = << >>
         /\ results = << << argv[3], Strip(argv[4]), Strip(argv[5]) >> >>

\* C24 (amended): a command run with check=true that exits non-zero makes run
\* fail with an error that carries the command and the exit code and nothing
\* of the output, and makes get_cmd_output fail with an error that carries the
\* command and the stripped stdout and stderr but not the exit code; in every
\* other case nothing is raised, and get_cmd_output returns (status, stripped
\* stdout, stripped stderr).
C24_ErrorOfEachVariant ==
  RunEnded =>
    /\ (argv[2] /\ argv[3] # 0 /\ script = "run") =>
         /\ exit # 0 /\ results = << >>
         /\ botMessage = << "Command '", argv[1], "' returned non-zero exit status ",
                            StatusText(argv[3]), "." >>
    /\ (argv[2] /\ argv[3] # 0 /\ script = "get_cmd_output") =>
         /\ exit # 0 /\ results = << >>
         /\ Carries(argv[1]) /\ EndsWith(<< "\n" >> \o Strip(argv[5]))
         /\ ~Carries(StatusText(argv[3]))
         /\ botMessage = << "failed to run '", argv[1], ".\n" >> \o Strip(argv[4])
                           \o << "\n" >> \o Strip(argv[5])
    /\ (~argv[2] \/ argv[3] = 0) =>
         /\ exit = 0 /\ botMessage = << >>
         /\ script = "get_cmd_output" =>
              results = << << argv[3], Strip(argv[4]), Strip(argv[5]) >> >>

\* get_cmd_output with check=True met status 2: the error raised has the
\* command and the stripped output, and no exit code
C24_Witness ==
  /\ RunEnded /\ script = "get_cmd_output" /\ argv[2] /\ argv[3] = 2
  /\ argv[5] = << " ", "boom", " ", "boom", "\n" >>
  /\ exit = 1 /\ results = << >>
  /\ EndsWith(<< "\n", "boom", " ", "boom" >>) /\ ~Carries("2")

\* the generated-code commits recorded since the start
NewCommits == (NumInitialCommits + 1)..Len(commits)

\* the revision a scratch branch of semver-checks is created for
CreatedFor(b) == IF b = CURRENT_BRANCH THEN headSha ELSE BaseArg

\* C25: nothing ties a generated-code commit to the branch its run created:
\* with two runs of semver-checks interleaved in one working tree, every
\* `git commit` is recorded on the branch that is checked out at that moment,
\* whichever run checked it out, with the index as it then is and the
\* revision_sha of the run that commits as its message.
C25_CommitLandsOnCheckedOutBranch ==
  [][ Len(commits') > Len(commits) =>
        LET k == Len(commits') IN
          /\ k = Len(commits) + 1
          /\ head.branch \in { CURRENT_BRANCH, BASE_BRANCH }
          /\ branches'[head.branch] = k /\ head' = [head EXCEPT !.commit = k]
          /\ \A b \in BranchNames \ { head.branch } : branches'[b] = branches[b]
          /\ commits'[k].tree = index' /\ commits'[k].parent = head.commit
          /\ \E p \in Runs :
               /\ pc[p] = "gen" /\ gi[p] = Len(ScGenCmds)
               /\ commits'[k].msg = genRev[p]
    ]_vars

\* the `base` branch, created for the base revision, carries the commit one
\* run recorded for the head revision, with the SDK generated from the head
\* revision's sources
C25_Witness ==
  /\ script = "sc" /\ DOMAIN pc = Runs
  /\ branches[BASE_BRANCH] \in NewCommits
  /\ CreatedFor(BASE_BRANCH) = SHA_BASE
  /\ commits[branches[BASE_BRANCH]].msg = SHA_HEAD
  /\ commits[branches[BASE_BRANCH]].author = COMMIT_AUTHOR_NAME
  /\ \E f \in commits[branches[BASE_BRANCH]].tree.sdk :
       f.name = "src/lib.rs" /\ f.code = HeadSource(FALSE).code
  /\ head.branch = BASE_BRANCH

\* the command that checks the base revision out onto its branch
BaseCheckoutCmd ==
  IF script = "cdr" THEN Cmd("git checkout -b", BASE_BRANCH_NAME)
  ELSE Cmd("git checkout -B", BASE_BRANCH)

\* C26: in a docker build, codegen-diff-revisions and semver-checks issue the
\* `git fetch` of the base revision before the command that checks the base
\* revision out onto its branch, and a base revision that is not present
\* locally is present once that checkout has succeeded; outside a docker build
\* no script issues a fetch at any point.
C26_FetchBeforeBaseCheckout ==
  /\ ~docker => ~Issued("git fetch")
  /\ (docker /\ script \in { "cdr", "sc" }) =>
       \A i \in 1..Len(cmds) :
         cmds[i] = BaseCheckoutCmd =>
           \E j \in 1..(i - 1) : cmds[j] = Cmd("git fetch", BaseArg)
  /\ (script \in { "cdr", "sc" } /\ BaseArg = SHA_REMOTE
        /\ branches[SecondBranch(script)] \notin { 0, start.branches[SecondBranch(script)] }) =>
       docker /\ 3 \in present

\* a docker run of codegen-diff-revisions fetched a base revision that was not
\* present locally and created the base branch at it
C26_Witness ==
  /\ script = "cdr" /\ docker /\ BaseArg = SHA_REMOTE
  /\ Issued("git fetch") /\ 3 \in present
  /\ FirstAt(Cmd("git fetch", SHA_REMOTE)) < FirstAt(Cmd("git checkout -b", BASE_BRANCH_NAME))
  /\ branches[BASE_BRANCH_NAME] # 0 /\ start.branches[BASE_BRANCH_NAME] = 0

\* C27 (as claimed): when a build step of codegen-diff-revisions fails, the
\* aborted run leaves no artifact subtree relocated by the failed build under
\* OUTPUT_PATH, and no scratch branch or generated-code commit that the run
\* created earlier.
C27_NoPartialArtifacts ==
  (script = "cdr" /\ BuildStepFailed) =>
    /\ \A d \in Subdirs : out[d] = {}
    /\ \A b \in TempBranches("cdr") : branches[b] = start.branches[b]
    /\ GeneratedCommits = {}

\* the per-language server-test targets
LanguageTargets == { target_codegen_server_python, target_codegen_server_typescript }

\* C28 (as claimed): generate_and_commit_generated_code runs the Python stub
\* sub-build and relocates the output of a language target if and only if
\* that target is in the configured set: no relocation of a language output is
\* attempted for a target outside the set, and a run that succeeds has
\* relocated and committed the output of every language target in the set.
C28_LanguageTargetsFollowSet ==
  script = "gen" =>
    /\ \A t \in LanguageTargets : IssuedFor("mv", t) => t \in GenTargets
    /\ Issued("gradlew stubs") => target_codegen_server_python \in GenTargets
    /\ (pc = "done" /\ exit = 0) =>
         \A t \in LanguageTargets \cap GenTargets :
           /\ IssuedFor("mv", t)
           /\ Tree(branches[TWICE_BRANCH]).out[Subdir(t)] # {}

\* the names of the files that carry a gradle stamp instead of the sources
StampedNames == { "smithy-build-info.json", "versions.toml" }

\* file f is derived from the sources recorded in tree t (an unstaged
\* modification is read by the build and not recorded in the tree)
BuiltFrom(f, t) ==
  \/ f.name \in StampedNames
  \/ /\ f.code = t.src.code
     /\ f.ws = t.src.ws
     /\ f.mods \in { t.src.mods, t.src.mods \cup { "u" } }

\* C29 (as claimed): the artifact tree that generate_and_commit_generated_code
\* commits holds only files of the build of that invocation: every file below
\* an artifact subdirectory is derived from the sources the commit records,
\* and no other path below OUTPUT_PATH (a rendered diff page or the
\* bot-message of an earlier run) is part of the commit.
C29_OnlyFilesOfThisBuild ==
  script \in { "cdr", "cdc", "gen" } =>
    \A k \in GeneratedCommits :
      /\ Tree(k).extra = {}
      /\ \A s \in Subdirs : \A f \in Tree(k).out[s] : BuiltFrom(f, Tree(k))

\* a codegen-diff-revisions run that ended successfully
CdrSucceeded == script = "cdr" /\ pc = "done" /\ exit = 0

\* the directory of every diff that make_diff rendered is below OUTPUT_PATH
RenderedDirsPresent ==
  \A i \in 1..Len(results) :
    results[i] # None => OutPath(BaseArg, headSha, DiffCalls[i].suffix) \in outFiles

\* C30 (as claimed): after every successful codegen-diff-revisions run, local
\* or automated, OUTPUT_PATH holds one non-empty subdirectory per artifact
\* category, the <base>/<head>/<suffix> directory of every rendered diff, and
\* the bot-message file.
C30_LayoutAfterEveryRun ==
  CdrSucceeded =>
    /\ \A s \in Subdirs : out[s] # {}
    /\ RenderedDirsPresent
    /\ BotMessagePath \in outFiles

\* C30 (amended): after a successful codegen-diff-revisions run OUTPUT_PATH
\* holds the directory of every rendered diff and the bot-message file; the
\* artifact subdirectories are there, one per category, after an automated
\* run only: a local run ends with `git checkout main`, which takes the
\* committed subdirectories out of the working tree.
C30_LayoutAfterRun ==
  CdrSucceeded =>
    /\ RenderedDirsPresent
    /\ BotMessagePath \in outFiles
    /\ docker => \A s \in Subdirs : out[s] # {}
    /\ ~docker => \A s \in Subdirs : out[s] = {}

\* a local run ended successfully with a rendered diff: the page directory and
\* the bot-message are there, the artifact subdirectories are gone
C30_Witness ==
  /\ CdrSucceeded /\ ~docker
  /\ \E i \in 1..Len(results) : results[i] # None
  /\ BotMessagePath \in outFiles
  /\ \A s \in Subdirs : out[s] = {}
  /\ Issued("git checkout")

\* the committed artifact subtrees that make_diff call d compares differ
CommittedTreesDiffer(d) ==
  DiffView(Tree(branches[BASE_BRANCH_NAME]).out[d.sub], d.ws)
    # DiffView(Tree(branches[HEAD_BRANCH_NAME]).out[d.sub], d.ws)

\* C31: make_diff and make_diffs leave the object store, the branches, HEAD
\* and the index as they are, and each make_diff call returns a page exactly
\* when the subtrees committed on the base and head branches differ for its
\* path, whatever the working tree holds (stale files, an unstaged change,
\* the pages of earlier calls).
C31_DiffReporterReadOnly ==
  [][ pc = "diffs" =>
        /\ gitVars' = gitVars
        /\ Len(results') > Len(results) =>
             (results'[Len(results')] # None
                <=> CommittedTreesDiffer(DiffCalls[Len(results')])) ]_vars

\* all ten calls returned with pages of earlier calls and codegen-diff.txt in
\* the working tree, the first category rendered and another one not
C31_Witness ==
  /\ script = "cdr" /\ pc = "write" /\ Len(results) = Len(DiffCalls)
  /\ results[1] # None
  /\ \E i \in 3..Len(results) : results[i] = None
  /\ diffTxt /\ OutPath(BaseArg, headSha, DiffCalls[1].suffix) \in outFiles
  /\ branches[HEAD_BRANCH_NAME] # 0 /\ branches[BASE_BRANCH_NAME] # 0

\* C32 (as claimed): every URL of the written report names a page rendered
\* in the run: in every bullet that carries links both make_diff results of
\* the category are pages, and the text of None is no part of the message.
C32_LinksNameRenderedPages ==
  (script = "cdr" /\ botMessage # << >>) =>
    /\ \A i \in 1..5 : LinkBullet(i) =>
         results[2 * i - 1] # None /\ results[2 * i] # None
    /\ Positions(botMessage, "None") = {}

\* C33 (as claimed): the commit on which codegen-diff-revisions creates the
\* base branch is the commit the base argument denoted when the run started,
\* for a SHA and for a symbolic ref such as HEAD.
C33_BaseResolvedAtStart ==
  [][ (script = "cdr" /\ branches[BASE_BRANCH_NAME] = 0
         /\ branches'[BASE_BRANCH_NAME] # 0) =>
        branches'[BASE_BRANCH_NAME] = StartResolve(BaseArg) ]_vars

\* run p has created the head branch and has not ended
HoldsHeadBranch(p) == pc[p] \notin { "revparse", "cleancheck", "fetch", "co_head", "done" }

\* run p has issued no commit, no build command, no branch deletion and no
\* branch creation other than the refused one
OnlyRefusedCreation(p, log) ==
  /\ \A i \in 1..Len(log) :
       log[i].cmd \notin { "git commit", "gradlew clean", "gradlew assemble",
                           "gradlew stubs", "git branch -D", "git checkout -B" }
  /\ \A i \in 1..(Len(log) - 1) : log[i].cmd # "git checkout -b"

\* C34 (as claimed): of two codegen-diff-revisions runs in one working tree at
\* most one is between its creation of the head branch and its end, and the
\* run whose `git checkout -b` is refused while the head branch exists ends
\* having issued no mutating command before the refused one.
C34_RefusedRunIssuedNothing ==
  [][ /\ ~(HoldsHeadBranch(1) /\ HoldsHeadBranch(2))'
      /\ \A p \in Runs :
           (pc[p] = "co_head" /\ branches[HEAD_BRANCH_NAME] # 0 /\ pc'[p] # pc[p]) =>
             /\ pc'[p] = "done" /\ exit'[p] = 1
             /\ \A i \in 1..Len(cmds[p]) : cmds[p][i].cmd \notin MutatingCmds ]_vars

\* C34 (amended): of two codegen-diff-revisions runs in one working tree at
\* most one is between its creation of the head branch and its end; while the
\* head branch exists the other run's `git checkout -b` is refused, and that
\* run ends with status 1 leaving the repository and the working tree as they
\* are, having issued no commit, no build and no branch deletion (an automated
\* run has issued its `git fetch` before the refused checkout).
C34_OneRunHoldsHeadBranch ==
  [][ /\ ~(HoldsHeadBranch(1) /\ HoldsHeadBranch(2))'
      /\ \A p \in Runs :
           (pc[p] = "co_head" /\ branches[HEAD_BRANCH_NAME] # 0 /\ pc'[p] # pc[p]) =>
             /\ pc'[p] = "done" /\ exit'[p] = 1
             /\ gitVars' = gitVars /\ fsVars' = fsVars
             /\ OnlyRefusedCreation(p, cmds'[p]) ]_vars

\* run 2 was refused the head branch that run 1 created and still holds
C34_Witness ==
  /\ script = "cdr" /\ DOMAIN pc = Runs
  /\ HoldsHeadBranch(1) /\ start.branches[HEAD_BRANCH_NAME] = 0
  /\ pc[2] = "done" /\ exit[2] = 1
  /\ cmds[2] # << >>
  /\ cmds[2][Len(cmds[2])] = Cmd("git checkout -b", HEAD_BRANCH_NAME)

\* a local codegen-diff-revisions run that ended successfully
LocalCdrSucceeded == CdrSucceeded /\ ~docker

\* C35 (as claimed): after a successful local codegen-diff-revisions run the
\* branch and the commit checked out are those checked out at the start,
\* whatever branch the run started on.
C35_StartingBranchRestored == LocalCdrSucceeded => head = start.head

\* C35 (amended): after a successful local codegen-diff-revisions run main is
\* checked out, at the commit main had at the start; this is the branch and
\* commit of the start exactly when the run started on main.
C35_MainCheckedOut ==
  LocalCdrSucceeded =>
    /\ head = [branch |-> MAIN_BRANCH, commit |-> start.branches[MAIN_BRANCH]]
    /\ head = start.head <=> start.head.branch = MAIN_BRANCH

\* a run started on the feature branch has ended on main, at another commit
C35_Witness ==
  /\ LocalCdrSucceeded /\ start.head.branch = FEATURE_BRANCH
  /\ head.branch = MAIN_BRANCH /\ head.commit # start.head.commit
  /\ IssuedFor("git checkout", MAIN_BRANCH)

\* a generation with a target set that omits some category
PartialTargets == script \in { "gen", "cdc" } /\ GenTargets # Targets

\* C36 (as claimed): with a target set that omits some categories no command
\* of generate_and_commit_generated_code is bound to fail, and the tree it
\* commits holds a subtree for a target exactly when the target is in the set.
C36_PartialSetsComplete ==
  PartialTargets =>
    /\ (pc = "gen" /\ gi \in 1..Len(GenList)) => ~MustFail(GenList[gi])
    /\ \A k \in GeneratedCommits : \A t \in Targets :
         Tree(k).out[Subdir(t)] # {} <=> t \in GenTargets

\* the targets whose relocated subtree is filtered
FilteredTargets == Targets \ { target_aws_sdk }

\* C37 (as claimed): a committed subtree of a filtered target holds no intended
\* metadata file and nothing of the `source` directory, and it holds every
\* other file the build of the target produces, whatever its name.
C37_OnlyMetadataExcluded ==
  script \in { "cdr", "cdc", "gen" } =>
    \A k \in GeneratedCommits : \A t \in FilteredTargets :
      Tree(k).out[Subdir(t)] # {} =>
        /\ \A f \in Tree(k).out[Subdir(t)] :
             ~IntendedMetadata(f.name) /\ ~UnderSource(f.name)
        /\ \A n \in Names(RawOutput(t, Tree(k).src, 0)) :
             (~IntendedMetadata(n) /\ ~UnderSource(n)) =>
               n \in Names(Tree(k).out[Subdir(t)])

\* a semver-checks run that has entered the repository
ScInRepository == script = "sc" /\ ~SelfTestMode /\ chdir

\* C38 (as claimed): whatever form the repository-root argument of
\* semver-checks has, the paths it uses after the change of directory lie in
\* the repository: the prefix names the repository root, and the removal of a
\* runtime-crate directory that is tracked is not bound to fail.
C38_RootFormsAgree ==
  ScInRepository =>
    /\ RootAfterChdir(RootArg) = RepoDir
    /\ (pc = "gen" /\ gi \in 1..Len(GenList) /\ GenList[gi].cmd = "git rm -r"
          /\ GenList[gi].arg \in index.rt) => ~MustFail(GenList[gi])

====
